---- MODULE Spec2Model ----
(***************************************************************************)
(* Home Assistant add-ons: the Active Heating Manager                      *)
(* (active-heating-manager-addon), the Argon OLED display                  *)
(* (argon-oled-addon) and the Argon fan controller (argon-fan-addon).      *)
(*                                                                         *)
(* One polling cycle of poll_trv_entities reads every configured TRV,      *)
(* resolves its demand, aggregates, decides, drives the boiler and         *)
(* publishes statistics.                                                   *)
(*                                                                         *)
(* Specifications                                                          *)
(*   Spec            the polling cycle over several TRVs and a boiler      *)
(*   SpecTRV         the resolution of one TRV over many sensor readings   *)
(*   SpecActuator    the boiler actuator over consecutive cycles           *)
(*   SpecCalculator  calculate_dynamic_temperature on its own              *)
(*   SpecScenario    three TRVs in front of a thermostat boiler            *)
(*   SpecReader      the cycle with the TRV reads taken request by request *)
(*   SpecDegraded    the cycle without TRVs or without a boiler entity     *)
(*   SpecAggregate   the cycle over valve positions on and off the steps   *)
(*   SpecNoCache     consecutive cycles with the MQTT connection changing  *)
(*   SpecPublisher   publish_heating_stats against the MQTT callbacks      *)
(*   SpecPermissions the power permission check of the display add-on      *)
(*   SpecOLED        the button monitor thread and the display loop        *)
(*   SpecOLEDFair    the same under fair scheduling                        *)
(*   SpecFan         set_fan_speed of the fan controller                   *)
(*                                                                         *)
(* Conventions                                                             *)
(*   - Python's None / an optional value is a sequence of length 0 or 1:   *)
(*     None == <<>>, a present value v is <<v>>.                           *)
(*   - Temperatures are integers in tenths of a degree Celsius.            *)
(*   - Valve positions are integer percentages; a mean is kept as the      *)
(*     pair (sum, count) so that comparisons against it are exact.         *)
(*   - The entity store is read as a snapshot that is stable for the       *)
(*     duration of one cycle; an entity that cannot be read is None.       *)
(***************************************************************************)
EXTENDS Integers, Sequences, FiniteSets, TLC

None == <<>>
Some(v) == <<v>>
IsNone(o) == o = <<>>
Val(o) == o[1]

(***************************************************************************)
(* Bounds of the model.                                                    *)
(***************************************************************************)
NumTRVs == 2
HistoryLength == 1
MaxAttempts == 2

(***************************************************************************)
(* Program constants.                                                      *)
(***************************************************************************)
manual_on_temperature == 210
manual_off_temperature == 140
NumPatterns == 3
MaxValvePosition == 100

TRVs == 1..NumTRVs
Patterns == 1..NumPatterns

(***************************************************************************)
(* str.lower() on the valve-sensor states of the model.                    *)
(***************************************************************************)
Lower(s) ==
  CASE s = "OPEN" -> "open"
    [] s = "Open" -> "open"
    [] s = "CLOSED" -> "closed"
    [] s = "Closed" -> "closed"
    [] s = "ON" -> "on"
    [] s = "OFF" -> "off"
    [] s = "False" -> "false"
    [] OTHER -> s

(***************************************************************************)
(* float(state) on the position-sensor states of the model: the numeric    *)
(* strings parse to their value, every other string raises ValueError,     *)
(* which is None here.                                                     *)
(***************************************************************************)
(* Faulty variant: a state that does not parse reads as zero. *)
ParseFloat_zero(s) ==
  CASE s = "0" -> Some(0)
    [] s = "10" -> Some(10)
    [] s = "20" -> Some(20)
    [] s = "25" -> Some(25)
    [] s = "40" -> Some(40)
    [] s = "60" -> Some(60)
    [] s = "100" -> Some(100)
    [] s = "120" -> Some(120)
    [] OTHER -> Some(0)

ParseFloat(s) ==
  CASE s = "0" -> Some(0)
    [] s = "10" -> Some(10)
    [] s = "20" -> Some(20)
    [] s = "25" -> Some(25)
    [] s = "40" -> Some(40)
    [] s = "60" -> Some(60)
    [] s = "100" -> Some(100)
    [] s = "120" -> Some(120)
    [] OTHER -> None

(***************************************************************************)
(* get_valve_state: the sensors of the three naming patterns are read in   *)
(* order; the first one that can be read decides.  sensors[k] is the state *)
(* of the entity of pattern k, or None when it cannot be read.             *)
(***************************************************************************)
(* Faulty variant: a state that is not recognised counts as closed. *)
ValveStateOf_fail_closed(state) ==
  IF state \in {"open", "opened", "on", "true"} THEN TRUE
  ELSE IF state \in {"closed", "off", "false"} THEN FALSE
  ELSE FALSE

ValveStateOf(state) ==
  IF state \in {"open", "opened", "on", "true"} THEN TRUE
  ELSE IF state \in {"closed", "off", "false"} THEN FALSE
  ELSE TRUE

RECURSIVE ValveStateFrom(_, _)
ValveStateFrom(sensors, k) ==
  IF k > Len(sensors) THEN TRUE
  ELSE IF IsNone(sensors[k]) THEN ValveStateFrom(sensors, k + 1)
  ELSE ValveStateOf(Lower(Val(sensors[k])))

get_valve_state(has_dot, sensors) ==
  IF ~has_dot THEN TRUE ELSE ValveStateFrom(sensors, 1)

(***************************************************************************)
(* get_valve_position: the first pattern whose entity can be read and      *)
(* whose state parses as a float gives the position; None otherwise.       *)
(***************************************************************************)
RECURSIVE ValvePositionFrom(_, _)
ValvePositionFrom(sensors, k) ==
  IF k > Len(sensors) THEN None
  ELSE IF IsNone(sensors[k]) THEN ValvePositionFrom(sensors, k + 1)
  ELSE LET position == ParseFloat(Val(sensors[k])) IN
       IF IsNone(position) THEN ValvePositionFrom(sensors, k + 1)
       ELSE position

get_valve_position(has_dot, sensors) ==
  IF ~has_dot THEN None ELSE ValvePositionFrom(sensors, 1)

(***************************************************************************)
(* round_up_to_nearest_25 of the value sum / n (n > 0).                    *)
(***************************************************************************)
(* Faulty variant: the steps are compared with < instead of <=. *)
round_up_to_nearest_25_strict(sum, n) ==
  IF sum < 0 THEN 0
  ELSE IF sum < 25 * n THEN 25
  ELSE IF sum < 50 * n THEN 50
  ELSE IF sum < 75 * n THEN 75
  ELSE 100

round_up_to_nearest_25(sum, n) ==
  IF sum <= 0 THEN 0
  ELSE IF sum <= 25 * n THEN 25
  ELSE IF sum <= 50 * n THEN 50
  ELSE IF sum <= 75 * n THEN 75
  ELSE 100

(* The locals of the loop body that the demand policy sets. *)
Resolved(is_heating, current_position, valve_open) ==
  [is_heating |-> is_heating, current_position |-> current_position,
   valve_open |-> valve_open]

(* Faulty variant: a TRV without a position reading counts as demanding. *)
PositionOnlyPolicy_fail_open(c, has_dot, r) ==
  LET current_position == get_valve_position(has_dot, r.position) IN
  IF \/ IsNone(current_position)
     \/ Val(current_position) > c.min_valve_position_threshold
  THEN Resolved(TRUE, current_position, None)
  ELSE Resolved(FALSE, current_position, None)

(* "if ignore_hvac_action:" - the valve position alone decides. *)
PositionOnlyPolicy(c, has_dot, r) ==
  LET current_position == get_valve_position(has_dot, r.position) IN
  IF /\ ~IsNone(current_position)
     /\ Val(current_position) > c.min_valve_position_threshold
  THEN Resolved(TRUE, current_position, None)
  ELSE Resolved(FALSE, current_position, None)

(* Faulty variant: a position equal to the threshold passes. *)
PositionThreshold_at_least(c, has_dot, r, checked) ==
  IF c.min_valve_position_threshold > 0
  THEN LET current_position == get_valve_position(has_dot, r.position) IN
       IF ~IsNone(current_position)
       THEN IF Val(current_position) >= c.min_valve_position_threshold
            THEN Resolved(TRUE, current_position, checked)
            ELSE Resolved(FALSE, current_position, checked)
       ELSE Resolved(TRUE, None, checked)
  ELSE Resolved(TRUE, None, checked)

(* "if valve_open:" - the position threshold on a TRV that is heating. *)
PositionThreshold(c, has_dot, r, checked) ==
  IF c.min_valve_position_threshold > 0
  THEN LET current_position == get_valve_position(has_dot, r.position) IN
       IF ~IsNone(current_position)
       THEN IF Val(current_position) > c.min_valve_position_threshold
            THEN Resolved(TRUE, current_position, checked)
            ELSE Resolved(FALSE, current_position, checked)
       ELSE Resolved(TRUE, None, checked)
  ELSE Resolved(TRUE, None, checked)

(* Faulty variant: the result of the valve-state check is not used. *)
HvacActionPolicy_valve_unused(c, has_dot, r) ==
  LET attributes == Val(r.entity) IN
  IF ~IsNone(attributes.hvac_action)
  THEN IF Val(attributes.hvac_action) = "heating"
       THEN LET valve_open == IF c.check_valve_state
                              THEN get_valve_state(has_dot, r.valve)
                              ELSE TRUE
                checked == IF c.check_valve_state
                           THEN Some(valve_open) ELSE None
            IN PositionThreshold(c, has_dot, r, checked)
       ELSE Resolved(FALSE, None, None)
  ELSE Resolved(FALSE, None, None)

(* "else:" - hvac_action is the primary indicator. *)
HvacActionPolicy(c, has_dot, r) ==
  LET attributes == Val(r.entity) IN
  IF ~IsNone(attributes.hvac_action)
  THEN IF Val(attributes.hvac_action) = "heating"
       THEN LET valve_open == IF c.check_valve_state
                              THEN get_valve_state(has_dot, r.valve)
                              ELSE TRUE
                checked == IF c.check_valve_state
                           THEN Some(valve_open) ELSE None
            IN IF valve_open
               THEN PositionThreshold(c, has_dot, r, checked)
               ELSE Resolved(FALSE, None, checked)
       ELSE Resolved(FALSE, None, None)
  ELSE Resolved(FALSE, None, None)

DemandPolicy(c, has_dot, r) ==
  IF c.ignore_hvac_action
  THEN PositionOnlyPolicy(c, has_dot, r)
  ELSE HvacActionPolicy(c, has_dot, r)

(***************************************************************************)
(* The body of the polling loop for one TRV (poll_trv_entities, the block  *)
(* under "for entity_id in trv_entities").                                 *)
(*   c        the configuration                                            *)
(*   has_dot  whether the entity id has the form domain.name               *)
(*   r        what the entity store holds for this TRV in this cycle:      *)
(*            r.entity   None, or the TRV's attributes, of which           *)
(*                       hvac_action is None when the key is absent;       *)
(*            r.valve    the states of the valve-state sensors, by pattern *)
(*            r.position the states of the position sensors, by pattern    *)
(* The result carries the locals of the loop body at its end: is_heating,  *)
(* current_position, valve_open (None when get_valve_state was not         *)
(* called) and append, the position added to valve_positions (or None).    *)
(***************************************************************************)
(* Faulty variant: the valve position alone decides, also for a TRV that   *)
(* cannot be read.                                                         *)
ResolveTRV_position_without_entity(c, has_dot, r) ==
  IF IsNone(r.entity) /\ ~c.ignore_hvac_action
  THEN [is_heating |-> FALSE, current_position |-> None,
        valve_open |-> None, append |-> None]
  ELSE
    LET d == DemandPolicy(c, has_dot, r)
        current_position ==
          IF d.is_heating /\ c.use_dynamic_temperature
          THEN IF IsNone(d.current_position)
               THEN get_valve_position(has_dot, r.position)
               ELSE d.current_position
          ELSE d.current_position
    IN [is_heating |-> d.is_heating,
        current_position |-> current_position,
        valve_open |-> d.valve_open,
        append |-> IF d.is_heating /\ c.use_dynamic_temperature
                   THEN current_position ELSE None]

ResolveTRV(c, has_dot, r) ==
  IF IsNone(r.entity)
  THEN [is_heating |-> FALSE, current_position |-> None,
        valve_open |-> None, append |-> None]
  ELSE
    LET d == DemandPolicy(c, has_dot, r)
        current_position ==
          IF d.is_heating /\ c.use_dynamic_temperature
          THEN IF IsNone(d.current_position)
               THEN get_valve_position(has_dot, r.position)
               ELSE d.current_position
          ELSE d.current_position
    IN [is_heating |-> d.is_heating,
        current_position |-> current_position,
        valve_open |-> d.valve_open,
        append |-> IF d.is_heating /\ c.use_dynamic_temperature
                   THEN current_position ELSE None]

(***************************************************************************)
(* An entity id of a TRV, reduced to what the code inspects: whether it    *)
(* has the form domain.name ('.' in trv_entity_id) and whether the name    *)
(* contains "_trv" (when it does not, the second naming pattern names the  *)
(* same entity as the first).  n tells the ids apart.                      *)
(***************************************************************************)
EntityId(n, dotted, trv_suffix) ==
  [n |-> n, dotted |-> dotted, trv_suffix |-> trv_suffix]

HasDot(entity_id) == entity_id.dotted

(***************************************************************************)
(* The polling loop over trv_entities[k..]: any_trv_heating and            *)
(* valve_positions as they stand after the loop; resolved keeps the locals *)
(* of every iteration.                                                     *)
(***************************************************************************)
RECURSIVE PollLoop(_, _, _, _)
PollLoop(c, readings, k, acc) ==
  IF k > Len(c.trv_entities) THEN acc
  ELSE LET res == ResolveTRV(c, HasDot(c.trv_entities[k]), readings[k]) IN
       PollLoop(c, readings, k + 1,
         [any_trv_heating |-> acc.any_trv_heating \/ res.is_heating,
          valve_positions |-> IF IsNone(res.append)
                              THEN acc.valve_positions
                              ELSE Append(acc.valve_positions, Val(res.append)),
          resolved |-> Append(acc.resolved, res)])

RECURSIVE SumSeq(_)
SumSeq(s) == IF s = <<>> THEN 0 ELSE Head(s) + SumSeq(Tail(s))

(* Faulty variant: only the TRVs with a position are counted. *)
CountHeating_positions_only(n_entities, any_trv_heating, valve_positions) ==
  Len(valve_positions)

(***************************************************************************)
(* trv_count_heating as poll_trv_entities computes it after the loop.      *)
(***************************************************************************)
CountHeating(n_entities, any_trv_heating, valve_positions) ==
  IF valve_positions # <<>> THEN Len(valve_positions)
  ELSE IF any_trv_heating THEN n_entities
  ELSE 0

(***************************************************************************)
(* avg_valve_position as poll_trv_entities computes it after the loop.     *)
(***************************************************************************)
(* Faulty variant: the largest position is taken instead of the mean. *)
AvgValvePosition_largest(valve_positions) ==
  IF valve_positions # <<>>
  THEN LET largest ==
             CHOOSE x \in { valve_positions[i] : i \in DOMAIN valve_positions } :
               \A i \in DOMAIN valve_positions : valve_positions[i] <= x
       IN Some(round_up_to_nearest_25(largest, 1))
  ELSE None

(* Faulty variant: the mean is truncated to a whole percentage. *)
AvgValvePosition_truncated(valve_positions) ==
  IF valve_positions # <<>>
  THEN Some(SumSeq(valve_positions) \div Len(valve_positions))
  ELSE None

AvgValvePosition(valve_positions) ==
  IF valve_positions # <<>>
  THEN Some(round_up_to_nearest_25(SumSeq(valve_positions), Len(valve_positions)))
  ELSE None

(* Faulty variant: the threshold is not applied. *)
SufficientDemand_no_threshold(c, any_trv_heating, trv_count_heating) ==
  any_trv_heating

(***************************************************************************)
(* The demand aggregation threshold.                                       *)
(***************************************************************************)
SufficientDemand(c, any_trv_heating, trv_count_heating) ==
  any_trv_heating /\ trv_count_heating >= c.min_trvs_heating

(***************************************************************************)
(* round(t * 2) / 2 for a temperature t given in tenths of a degree.       *)
(* t * 2 is t / 5 in these units; its fractional part is a multiple of     *)
(* 0.2, so the tie-breaking rule of round() never applies.                 *)
(***************************************************************************)
RoundHalf(t) ==
  LET q == t \div 5
      rem == t % 5
  IN IF rem <= 2 THEN 5 * q ELSE 5 * (q + 1)

Max(a, b) == IF a >= b THEN a ELSE b
Min(a, b) == IF a <= b THEN a ELSE b

(***************************************************************************)
(* The value of a JSON attribute: a number, here a temperature in tenths   *)
(* of a degree, or a string.                                               *)
(***************************************************************************)
Number(t) == [number |-> t]
String(s) == [string |-> s]

(***************************************************************************)
(* float(current_temp) on the attribute values of the model: a number is   *)
(* itself, the numeric strings parse to their value, every other string    *)
(* raises ValueError, which is None here.                                  *)
(***************************************************************************)
Float(v) ==
  IF "number" \in DOMAIN v THEN Some(v.number)
  ELSE CASE v.string = "16" -> Some(160)
         [] v.string = "16.5" -> Some(165)
         [] v.string = "23" -> Some(230)
         [] OTHER -> None

(***************************************************************************)
(* calculate_dynamic_temperature, the base of the interpolation: the       *)
(* boiler's current_temperature, or manual_off_temp when the boiler cannot *)
(* be read, has no such attribute, or float() rejects its value.  boiler   *)
(* is what get_entity_state returns for the boiler entity.                 *)
(***************************************************************************)
(* Faulty variant: without a usable reading the base is zero degrees. *)
current_boiler_temp_fallback_zero(boiler, manual_off_temp) ==
  IF ~IsNone(boiler)
  THEN LET current_temp == Val(boiler).current_temperature IN
       IF ~IsNone(current_temp)
       THEN LET parsed == Float(Val(current_temp)) IN
            IF ~IsNone(parsed) THEN Val(parsed) ELSE 0
       ELSE 0
  ELSE 0

current_boiler_temp(boiler, manual_off_temp) ==
  IF ~IsNone(boiler)
  THEN LET current_temp == Val(boiler).current_temperature IN
       IF ~IsNone(current_temp)
       THEN LET parsed == Float(Val(current_temp)) IN
            IF ~IsNone(parsed) THEN Val(parsed) ELSE manual_off_temp
       ELSE manual_off_temp
  ELSE manual_off_temp

(***************************************************************************)
(* calculate_dynamic_temperature, the two segments of the interpolation    *)
(* for a position above 0.  The value is kept as a numerator over 75, in   *)
(* tenths of a degree, so that both segments are exact.                    *)
(***************************************************************************)
(* Faulty variant: the anchor at 25% is a whole degree above the base. *)
Interpolate_anchor_one_degree(avg_valve_position, base, manual_on_temp) ==
  IF avg_valve_position <= 25
  THEN LET target_at_0 == base
           target_at_25 == base + 10
       IN 75 * target_at_0
            + 3 * (target_at_25 - target_at_0) * avg_valve_position
  ELSE LET target_at_25 == base + 10
       IN 75 * target_at_25
            + (manual_on_temp - target_at_25) * (avg_valve_position - 25)

(* Faulty variant: the lower segment is flat at the anchor. *)
Interpolate_flat_lower(avg_valve_position, base, manual_on_temp) ==
  IF avg_valve_position <= 25
  THEN LET target_at_25 == base + 5
       IN 75 * target_at_25
  ELSE LET target_at_25 == base + 5
       IN 75 * target_at_25
            + (manual_on_temp - target_at_25) * (avg_valve_position - 25)

Interpolate(avg_valve_position, base, manual_on_temp) ==
  IF avg_valve_position <= 25
  THEN LET target_at_0 == base
           target_at_25 == base + 5
       IN 75 * target_at_0
            + 3 * (target_at_25 - target_at_0) * avg_valve_position
  ELSE LET target_at_25 == base + 5
       IN 75 * target_at_25
            + (manual_on_temp - target_at_25) * (avg_valve_position - 25)

(***************************************************************************)
(* max(manual_off_temp, min(manual_on_temp, target_temp)) on a numerator   *)
(* over 75.                                                                *)
(***************************************************************************)
Bounded(target75, manual_on_temp, manual_off_temp) ==
  Max(75 * manual_off_temp, Min(75 * manual_on_temp, target75))

(***************************************************************************)
(* round(target_temp * 2) / 2 on a numerator over 75: the nearest multiple *)
(* of 375 / 75 tenths.  375 is odd, so no tie occurs.                      *)
(***************************************************************************)
RoundHalf75(target75) ==
  LET q == target75 \div 375
      rem == target75 % 375
  IN IF 2 * rem < 375 THEN 5 * q ELSE 5 * (q + 1)

(***************************************************************************)
(* calculate_dynamic_temperature.                                          *)
(***************************************************************************)
(* Faulty variant: a position of 0 is interpolated like any other. *)
calculate_dynamic_temperature_no_zero_case(avg_valve_position, boiler, manual_on_temp, manual_off_temp) ==
  RoundHalf75(Bounded(
    Interpolate(avg_valve_position,
                current_boiler_temp(boiler, manual_off_temp),
                manual_on_temp),
    manual_on_temp, manual_off_temp))

calculate_dynamic_temperature(avg_valve_position, boiler, manual_on_temp, manual_off_temp) ==
  IF avg_valve_position <= 0 THEN manual_off_temp
  ELSE RoundHalf75(Bounded(
         Interpolate(
           avg_valve_position,
           current_boiler_temp(boiler, manual_off_temp),
           manual_on_temp),
         manual_on_temp, manual_off_temp))

(***************************************************************************)
(* The local before_bounds of calculate_dynamic_temperature: the           *)
(* interpolated target before it is bounded and rounded, as a numerator    *)
(* over 75; None when the function returns before it interpolates.         *)
(***************************************************************************)
BeforeBounds(avg_valve_position, boiler, manual_on_temp, manual_off_temp) ==
  IF avg_valve_position <= 0 THEN None
  ELSE Some(Interpolate(
              avg_valve_position,
              current_boiler_temp(boiler, manual_off_temp),
              manual_on_temp))

(***************************************************************************)
(* get_entity_state against a remote whose answers to the first, second,   *)
(* ... request are answers: requests.get raises Timeout or                 *)
(* ConnectionError, raise_for_status raises HTTPError, all of them         *)
(* RequestException, or the body of the response is returned.  The result  *)
(* is what the function returns, requests how many requests it made, and   *)
(* raised whether an exception left it.                                    *)
(***************************************************************************)
Answered(json) == [kind |-> "ok", json |-> json]
Failed(kind) == [kind |-> kind, json |-> None]

(* Faulty variant: a failed request is repeated once. *)
get_entity_state_retry(answers) ==
  LET response == answers[1] IN
  IF response.kind = "ok"
  THEN [result |-> response.json, requests |-> 1, raised |-> FALSE]
  ELSE LET second == answers[2] IN
       IF second.kind = "ok"
       THEN [result |-> second.json, requests |-> 2, raised |-> FALSE]
       ELSE [result |-> None, requests |-> 2, raised |-> FALSE]

get_entity_state(answers) ==
  LET response == answers[1] IN
  IF response.kind = "ok"
  THEN [result |-> response.json, requests |-> 1, raised |-> FALSE]
  ELSE IF response.kind \in {"Timeout", "ConnectionError", "HTTPError"}
  THEN [result |-> None, requests |-> 1, raised |-> FALSE]
  ELSE [result |-> None, requests |-> 1, raised |-> TRUE]

(***************************************************************************)
(* call_service: one request to the remote; ok is whether it succeeded.    *)
(***************************************************************************)
call_service(domain, service, preset_mode, temperature, ok) ==
  [domain |-> domain, service |-> service, preset_mode |-> preset_mode,
   temperature |-> temperature, ok |-> ok]

(***************************************************************************)
(* The preset loop of the thermostat actuators: presets are requested in   *)
(* order until one call succeeds.  oks[k] is the outcome of the k-th       *)
(* service call of the cycle.                                              *)
(***************************************************************************)
RECURSIVE PresetCalls(_, _, _)
PresetCalls(presets, k, oks) ==
  IF k > Len(presets) THEN <<>>
  ELSE LET call == call_service("climate", "set_preset_mode",
                                Some(presets[k]), None, oks[k])
       IN IF oks[k] THEN <<call>>
          ELSE <<call>> \o PresetCalls(presets, k + 1, oks)

(* Faulty variant: the guard does not look at the preset. *)
ThermostatCalls_guard_ignores_preset(boiler, temperature, presets, oks) ==
  LET target == RoundHalf(temperature) IN
  IF ~IsNone(boiler)
  THEN LET attributes == Val(boiler)
           current_temp == IF IsNone(attributes.temperature) THEN 0
                           ELSE Val(attributes.temperature)
       IN IF current_temp = target
          THEN <<>>
          ELSE LET tried == PresetCalls(presets, 1, oks) IN
               tried \o <<call_service("climate", "set_temperature", None,
                                       Some(target), oks[Len(tried) + 1])>>
  ELSE <<call_service("climate", "set_temperature", None, Some(target), oks[1])>>

(* Faulty variant: a set_temperature that fails is issued a second time. *)
ThermostatCalls_retry(boiler, temperature, presets, oks) ==
  LET target == RoundHalf(temperature)
      Write(k) == LET call == call_service("climate", "set_temperature", None,
                                           Some(target), oks[k])
                  IN IF oks[k] THEN <<call>> ELSE <<call, call>>
  IN IF ~IsNone(boiler)
     THEN LET attributes == Val(boiler)
              current_preset == IF IsNone(attributes.preset_mode) THEN "none"
                                ELSE Val(attributes.preset_mode)
              current_temp == IF IsNone(attributes.temperature) THEN 0
                              ELSE Val(attributes.temperature)
          IN IF current_temp = target /\ current_preset # "schedule"
             THEN <<>>
             ELSE LET tried == PresetCalls(presets, 1, oks) IN
                  tried \o Write(Len(tried) + 1)
     ELSE Write(1)

(* Faulty variant: the guard short-circuits in the preset 'none' only. *)
ThermostatCalls_guard_preset_none(boiler, temperature, presets, oks) ==
  LET target == RoundHalf(temperature) IN
  IF ~IsNone(boiler)
  THEN LET attributes == Val(boiler)
           current_preset == IF IsNone(attributes.preset_mode) THEN "none"
                             ELSE Val(attributes.preset_mode)
           current_temp == IF IsNone(attributes.temperature) THEN 0
                           ELSE Val(attributes.temperature)
       IN IF current_temp = target /\ current_preset = "none"
          THEN <<>>
          ELSE LET tried == PresetCalls(presets, 1, oks) IN
               tried \o <<call_service("climate", "set_temperature", None,
                                       Some(target), oks[Len(tried) + 1])>>
  ELSE <<call_service("climate", "set_temperature", None, Some(target), oks[1])>>

(* Faulty variant: the guard is missing, the calls are always issued. *)
ThermostatCalls_no_guard(boiler, temperature, presets, oks) ==
  LET target == RoundHalf(temperature) IN
  IF ~IsNone(boiler)
  THEN LET tried == PresetCalls(presets, 1, oks) IN
       tried \o <<call_service("climate", "set_temperature", None,
                               Some(target), oks[Len(tried) + 1])>>
  ELSE <<call_service("climate", "set_temperature", None, Some(target), oks[1])>>

(* Faulty variant: the presets are also tried on a boiler that cannot be   *)
(* read.                                                                   *)
ThermostatCalls_presets_unreadable(boiler, temperature, presets, oks) ==
  LET target == RoundHalf(temperature)
      tried == PresetCalls(presets, 1, oks)
      write == tried \o <<call_service("climate", "set_temperature", None,
                                       Some(target), oks[Len(tried) + 1])>>
  IN IF ~IsNone(boiler)
     THEN LET attributes == Val(boiler)
              current_preset == IF IsNone(attributes.preset_mode) THEN "none"
                                ELSE Val(attributes.preset_mode)
              current_temp == IF IsNone(attributes.temperature) THEN 0
                              ELSE Val(attributes.temperature)
          IN IF current_temp = target /\ current_preset # "schedule"
             THEN <<>>
             ELSE write
     ELSE write

(***************************************************************************)
(* The body shared by set_manual_temperature_thermostat and                *)
(* set_manual_off_temperature_thermostat, which differ in the presets they *)
(* try.  The result is the sequence of service calls issued.               *)
(***************************************************************************)
ThermostatCalls(boiler, temperature, presets, oks) ==
  LET target == RoundHalf(temperature) IN
  IF ~IsNone(boiler)
  THEN LET attributes == Val(boiler)
           current_preset == IF IsNone(attributes.preset_mode) THEN "none"
                             ELSE Val(attributes.preset_mode)
           current_temp == IF IsNone(attributes.temperature) THEN 0
                           ELSE Val(attributes.temperature)
       IN IF current_temp = target /\ current_preset # "schedule"
          THEN <<>>
          ELSE LET tried == PresetCalls(presets, 1, oks) IN
               tried \o <<call_service("climate", "set_temperature", None,
                                       Some(target), oks[Len(tried) + 1])>>
  ELSE <<call_service("climate", "set_temperature", None, Some(target), oks[1])>>

(* Faulty variant: 'manual' is requested before 'none'. *)
set_manual_temperature_thermostat_manual_first(boiler, target_temperature, oks) ==
  ThermostatCalls(boiler, target_temperature, <<"manual", "none", "away">>, oks)

set_manual_temperature_thermostat(boiler, target_temperature, oks) ==
  ThermostatCalls(boiler, target_temperature, <<"none", "manual", "away">>, oks)

(* Faulty variant: the idle path requests 'away' as the demand path does. *)
set_manual_off_temperature_thermostat_with_away(boiler, off_temperature, oks) ==
  ThermostatCalls(boiler, off_temperature, <<"none", "manual", "away">>, oks)

set_manual_off_temperature_thermostat(boiler, off_temperature, oks) ==
  ThermostatCalls(boiler, off_temperature, <<"none", "manual">>, oks)

(***************************************************************************)
(* entity_id.split('.')[0] if '.' in entity_id else 'switch', on the       *)
(* boiler entity ids of the model.                                         *)
(***************************************************************************)
DomainOf(entity_id) ==
  CASE entity_id = "switch.boiler" -> "switch"
    [] entity_id = "climate.boiler" -> "climate"
    [] entity_id = "input_boolean.boiler" -> "input_boolean"
    [] OTHER -> "switch"

(* Faulty variant: turn_on is issued without looking at the state. *)
turn_on_boiler_toggle_unchecked(entity_id, boiler, oks) ==
  <<call_service(DomainOf(entity_id), "turn_on", None, None, oks[1])>>

turn_on_boiler_toggle(entity_id, boiler, oks) ==
  IF ~IsNone(boiler) /\ Val(boiler).state = "on"
  THEN <<>>
  ELSE <<call_service(DomainOf(entity_id), "turn_on", None, None, oks[1])>>

(* Faulty variant: turn_off is issued without looking at the state. *)
turn_off_boiler_toggle_unchecked(entity_id, boiler, oks) ==
  <<call_service(DomainOf(entity_id), "turn_off", None, None, oks[1])>>

turn_off_boiler_toggle(entity_id, boiler, oks) ==
  IF ~IsNone(boiler) /\ Val(boiler).state = "off"
  THEN <<>>
  ELSE <<call_service(DomainOf(entity_id), "turn_off", None, None, oks[1])>>

(***************************************************************************)
(* What a service call does to the boiler entity in the remote store: a    *)
(* call that succeeded takes effect, a call that failed changes nothing.   *)
(* An entity that cannot be read stays unreadable.                         *)
(***************************************************************************)
RemoteEffect(boiler, call) ==
  IF IsNone(boiler) \/ ~call.ok THEN boiler
  ELSE LET b == Val(boiler) IN
       CASE call.service = "set_preset_mode" ->
              Some([b EXCEPT !.preset_mode = call.preset_mode])
         [] call.service = "set_temperature" ->
              Some([b EXCEPT !.temperature = call.temperature])
         [] call.service = "turn_on" -> Some([b EXCEPT !.state = "on"])
         [] call.service = "turn_off" -> Some([b EXCEPT !.state = "off"])
         [] OTHER -> boiler

RECURSIVE RemoteEffects(_, _)
RemoteEffects(boiler, calls) ==
  IF calls = <<>> THEN boiler
  ELSE RemoteEffects(RemoteEffect(boiler, Head(calls)), Tail(calls))

(***************************************************************************)
(* The call of publish_heating_stats that ends the cycle: its arguments.   *)
(***************************************************************************)
publish_heating_stats(heating_active, count, avg, target, boiler_mode) ==
  [heating_active |-> heating_active,
   trv_count_heating |-> count,
   avg_valve_position |-> avg,
   target_temp |-> target,
   boiler_mode |-> boiler_mode]

(***************************************************************************)
(* State.                                                                  *)
(*   cfg             the options loaded by main() (load_config)            *)
(*   trv             trv[i]: what the entity store holds for TRV i         *)
(*   boiler          what the entity store holds for the boiler entity     *)
(*   pc              "sleep" between cycles, "polled" when a cycle has run *)
(* and the locals of the cycle that has run (reset when it returns):       *)
(*   any_trv_heating, valve_positions, trv_count_heating,                  *)
(*   avg_valve_position, sufficient_demand, target_temp,                   *)
(*   calculator_input  the position handed to the calculator, None if the  *)
(*                     calculator was not called                           *)
(*   before_bounds   the interpolated target of the calculator before it   *)
(*                   is bounded and rounded, as a numerator over 75        *)
(*   actuation       the actuator function the cycle called, "" if none    *)
(*   calls           the service calls the cycle issued, in order          *)
(*   published       the calls of publish_heating_stats of the cycle, each  *)
(*                   as its arguments                                      *)
(*   events          the service calls and the calls of                    *)
(*                   publish_heating_stats of the cycle, in the order the  *)
(*                   cycle made them                                       *)
(*   resolved        resolved[i]: the locals of the loop body for TRV i    *)
(*   state_data      what get_entity_state returned to the actuator for    *)
(*                   the boiler entity                                     *)
(*   requests        requests[i]: the requests get_entity_state made for   *)
(*                   TRV i, where the reads are modelled request by        *)
(*                   request, <<>> elsewhere                               *)
(*   responses       responses[i]: what the remote answers to the first,   *)
(*                   second, ... request for TRV i, where the reads are    *)
(*                   modelled request by request, <<>> elsewhere           *)
(* and a history variable, which the program does not have:                *)
(*   history         the cycles completed before the current one, oldest   *)
(*                   first; as many as the initial state makes room for    *)
(* The state outside the polling cycle:                                    *)
(*   mqtt_connected  the global the MQTT callbacks set                     *)
(*   publisher       publish_heating_stats taken statement by statement:   *)
(*                   its position, its arguments and what it delivered     *)
(*   oled            the fields of the ArgonOLED object that its threads   *)
(*                   share (argon-oled-addon)                              *)
(*   monitor         the button_monitor thread: its position and locals    *)
(*   display         the main thread of the display: its position in       *)
(*                   __init__ and run, and its locals                      *)
(*   host            what surrounds the display: the supervisor token, the *)
(*                   supervisor's answers, the button, and the requests    *)
(*                   the supervisor received                               *)
(*   fan             the ArgonFanController object and the fan MCU behind  *)
(*                   its I2C bus (argon-fan-addon): current_speed, the     *)
(*                   last byte the MCU accepted (mcu), and what the last   *)
(*                   call of set_fan_speed did (call)                      *)
(***************************************************************************)
VARIABLES cfg, trv, boiler, pc,
          any_trv_heating, valve_positions, trv_count_heating,
          avg_valve_position, sufficient_demand, target_temp,
          calculator_input, before_bounds, actuation, calls, published,
          events, resolved, state_data, history, responses, requests,
          mqtt_connected, publisher, oled, monitor, display, host, fan

envVars == <<cfg, trv, boiler, responses>>
cycleVars == <<any_trv_heating, valve_positions, trv_count_heating,
               avg_valve_position, sufficient_demand, target_temp,
               calculator_input, before_bounds, actuation, calls, published,
               events, resolved, state_data, requests>>
vars == <<cfg, trv, boiler, pc,
          any_trv_heating, valve_positions, trv_count_heating,
          avg_valve_position, sufficient_demand, target_temp,
          calculator_input, before_bounds, actuation, calls, published,
          events, resolved, state_data, history, responses, requests,
          mqtt_connected, publisher, oled, monitor, display, host, fan>>
addonVars == <<oled, monitor, display, host, fan>>
otherVars == <<mqtt_connected, publisher, oled, monitor, display, host, fan>>

(***************************************************************************)
(* The configurations of the model.  The boiler entity is a climate        *)
(* entity in thermostat mode and a switch in toggle mode, or is not        *)
(* configured ("").                                                        *)
(***************************************************************************)
PolledTRVs == [i \in TRVs |-> EntityId(i, TRUE, TRUE)]

Configs ==
  { c \in [trv_entities : {PolledTRVs},
           boiler_entity : {"", "climate.boiler", "switch.boiler"},
           boiler_mode : {"thermostat", "toggle"},
           check_valve_state : BOOLEAN,
           ignore_hvac_action : BOOLEAN,
           min_valve_position_threshold : {0, 25},
           min_trvs_heating : {1, 2},
           use_dynamic_temperature : BOOLEAN,
           manual_on_temperature : {manual_on_temperature},
           manual_off_temperature : {manual_off_temperature}] :
      /\ c.boiler_entity = "climate.boiler" => c.boiler_mode = "thermostat"
      /\ c.boiler_entity = "switch.boiler" => c.boiler_mode = "toggle" }

(***************************************************************************)
(* The TRV readings of the model.                                          *)
(***************************************************************************)
Reading(entity, valve, position) ==
  [entity |-> entity, valve |-> valve, position |-> position]

Attributes(hvac_action) == Some([hvac_action |-> hvac_action])

NoSensor == <<None, None, None>>

TRVReadings ==
  { Reading(None, <<Some("open"), None, None>>, <<Some("40"), None, None>>),
    Reading(Attributes(Some("idle")), NoSensor, <<Some("40"), None, None>>),
    Reading(Attributes(Some("heating")), NoSensor, NoSensor),
    Reading(Attributes(Some("heating")), <<None, Some("CLOSED"), None>>,
            <<Some("40"), None, None>>),
    Reading(Attributes(Some("heating")), <<Some("on"), None, None>>,
            <<Some("unknown"), Some("10"), None>>),
    Reading(Attributes(Some("heating")), <<Some("unknown"), Some("closed"), None>>,
            <<None, None, Some("40")>>) }

(***************************************************************************)
(* The boiler entities of the model: a switch that is on or off, or a      *)
(* climate entity with a preset, a setpoint and a measured temperature.    *)
(***************************************************************************)
SwitchEntity(state) ==
  Some([state |-> state, preset_mode |-> None, temperature |-> None,
        current_temperature |-> None])

ClimateEntity(preset_mode, temperature, current_temperature) ==
  Some([state |-> "heat", preset_mode |-> preset_mode,
        temperature |-> temperature,
        current_temperature |-> current_temperature])

BoilerStates(c) ==
  IF c.boiler_entity = "" THEN {None}
  ELSE IF c.boiler_mode = "thermostat"
  THEN {None} \cup
       { ClimateEntity(Some(p), t, Some(Number(160))) :
           p \in {"none", "schedule"},
           t \in {None, Some(c.manual_off_temperature),
                   Some(c.manual_on_temperature)} }
  ELSE {None, SwitchEntity("on"), SwitchEntity("off"),
        SwitchEntity("unavailable")}

(***************************************************************************)
(* The state outside the polling cycle where a specification leaves it     *)
(* out: MQTT is not connected, publish_heating_stats is not running, and   *)
(* the display and the fan controller have not been started.               *)
(***************************************************************************)
NotPublishing == [pc |-> "done", branch |-> "", args |-> None, log |-> <<>>]

(* ArgonOLED.__init__ up to the permission check. *)
NewArgonOLED ==
  [current_screen |-> 0, button_action |-> None,
   power_management_enabled |-> FALSE, button_in_power_hold |-> FALSE]

(* button_monitor before its thread is started: its locals, and stored,    *)
(* the actions it has written to button_action so far.                     *)
MonitorOff ==
  [pc |-> "off", hold |-> 0, reboot_displayed |-> FALSE,
   shutdown_displayed |-> FALSE, total_hold |-> 0, pulsetime |-> 0,
   selected |-> "", countdown |-> 0, sample |-> 0, cancelled |-> FALSE,
   press_count |-> 0, stored |-> <<>>]

(* The main thread before ArgonOLED is created: permissions is what        *)
(* SupervisorAPI.check_power_permissions returned, applied the actions     *)
(* that run has applied to current_screen so far.                          *)
DisplayOff == [pc |-> "off", permissions |-> None, applied |-> <<>>]

(* No supervisor token, no answers, the button released and never pressed, *)
(* no request received on the host endpoints.                              *)
HostOff ==
  [token |-> FALSE, supervisor_info |-> None, host_info |-> None,
   pressed |-> FALSE, presses |-> 0, posts |-> <<>>]

(* ArgonFanController.__init__: current_speed is 0; the MCU has not yet    *)
(* accepted a byte from this controller; no call of set_fan_speed yet.     *)
NewArgonFanController ==
  [current_speed |-> 0, mcu |-> None, call |-> None]

AddonsOff ==
  /\ oled = NewArgonOLED
  /\ monitor = MonitorOff
  /\ display = DisplayOff
  /\ host = HostOff
  /\ fan = NewArgonFanController

Quiet ==
  /\ mqtt_connected = FALSE
  /\ publisher = NotPublishing
  /\ AddonsOff

NoCycle ==
  /\ any_trv_heating = FALSE
  /\ valve_positions = <<>>
  /\ trv_count_heating = 0
  /\ avg_valve_position = None
  /\ sufficient_demand = FALSE
  /\ target_temp = None
  /\ calculator_input = None
  /\ before_bounds = None
  /\ actuation = ""
  /\ calls = <<>>
  /\ published = None
  /\ events = <<>>
  /\ resolved = <<>>
  /\ state_data = None
  /\ requests = <<>>

Init ==
  /\ cfg \in Configs
  /\ trv \in [TRVs -> TRVReadings]
  /\ boiler \in BoilerStates(cfg)
  /\ pc = "sleep"
  /\ NoCycle
  /\ Quiet
  /\ responses = <<>>
  /\ history = <<>>

(***************************************************************************)
(* The boiler management block of poll_trv_entities ("if boiler_entity:"): *)
(* the target temperature, the actuator function called and the service    *)
(* calls it issues.                                                        *)
(***************************************************************************)
Actuation(target, calculator, function, issued) ==
  [target_temp |-> target, calculator_input |-> calculator,
   actuation |-> function, calls |-> issued]

(* Faulty variant: the mode is compared with a misspelt 'Thermostat'. *)
ManageBoiler_mode_misspelt(c, b, sufficient, positions, avg, oks) ==
  IF c.boiler_entity # ""
  THEN IF sufficient
       THEN IF c.boiler_mode = "Thermostat"
            THEN Actuation(Some(c.manual_on_temperature), None,
                   "set_manual_temperature_thermostat",
                   set_manual_temperature_thermostat(
                     b, c.manual_on_temperature, oks))
            ELSE Actuation(None, None, "turn_on_boiler_toggle",
                   turn_on_boiler_toggle(c.boiler_entity, b, oks))
       ELSE IF c.boiler_mode = "Thermostat"
            THEN Actuation(Some(c.manual_off_temperature), None,
                   "set_manual_off_temperature_thermostat",
                   set_manual_off_temperature_thermostat(
                     b, c.manual_off_temperature, oks))
            ELSE Actuation(None, None, "turn_off_boiler_toggle",
                   turn_off_boiler_toggle(c.boiler_entity, b, oks))
  ELSE Actuation(None, None, "", <<>>)

(* Faulty variant: the calculator is also used without sufficient demand. *)
ManageBoiler_idle_dynamic(c, b, sufficient, positions, avg, oks) ==
  IF c.boiler_entity # ""
  THEN IF c.boiler_mode = "thermostat"
       THEN IF c.use_dynamic_temperature /\ positions # <<>>
            THEN LET target == calculate_dynamic_temperature(
                                 Val(avg), b, c.manual_on_temperature,
                                 c.manual_off_temperature)
                 IN Actuation(Some(target), avg,
                      "set_manual_temperature_thermostat",
                      set_manual_temperature_thermostat(b, target, oks))
            ELSE IF sufficient
                 THEN Actuation(Some(c.manual_on_temperature), None,
                        "set_manual_temperature_thermostat",
                        set_manual_temperature_thermostat(
                          b, c.manual_on_temperature, oks))
                 ELSE Actuation(Some(c.manual_off_temperature), None,
                        "set_manual_off_temperature_thermostat",
                        set_manual_off_temperature_thermostat(
                          b, c.manual_off_temperature, oks))
       ELSE IF sufficient
            THEN Actuation(None, None, "turn_on_boiler_toggle",
                   turn_on_boiler_toggle(c.boiler_entity, b, oks))
            ELSE Actuation(None, None, "turn_off_boiler_toggle",
                   turn_off_boiler_toggle(c.boiler_entity, b, oks))
  ELSE Actuation(None, None, "", <<>>)

(* Faulty variant: the decision of the previous cycle is remembered, and   *)
(* a cycle that decides the same issues no call.                           *)
ManageBoiler_cached(c, b, sufficient, positions, avg, oks) ==
  LET live ==
        IF c.boiler_entity # ""
        THEN IF sufficient
             THEN IF c.boiler_mode = "thermostat"
                  THEN IF c.use_dynamic_temperature /\ positions # <<>>
                       THEN LET target == calculate_dynamic_temperature(
                                            Val(avg), b, c.manual_on_temperature,
                                            c.manual_off_temperature)
                            IN Actuation(Some(target), avg,
                                 "set_manual_temperature_thermostat",
                                 set_manual_temperature_thermostat(b, target, oks))
                       ELSE Actuation(Some(c.manual_on_temperature), None,
                              "set_manual_temperature_thermostat",
                              set_manual_temperature_thermostat(
                                b, c.manual_on_temperature, oks))
                  ELSE Actuation(None, None, "turn_on_boiler_toggle",
                         turn_on_boiler_toggle(c.boiler_entity, b, oks))
             ELSE IF c.boiler_mode = "thermostat"
                  THEN Actuation(Some(c.manual_off_temperature), None,
                         "set_manual_off_temperature_thermostat",
                         set_manual_off_temperature_thermostat(
                           b, c.manual_off_temperature, oks))
                  ELSE Actuation(None, None, "turn_off_boiler_toggle",
                         turn_off_boiler_toggle(c.boiler_entity, b, oks))
        ELSE Actuation(None, None, "", <<>>)
      last == IF history = <<>> THEN None ELSE history[Len(history)]
  IN IF last # None /\ Val(last).sufficient_demand = sufficient
     THEN Actuation(live.target_temp, live.calculator_input,
                    live.actuation, <<>>)
     ELSE live

ManageBoiler(c, b, sufficient, positions, avg, oks) ==
  IF c.boiler_entity # ""
  THEN IF sufficient
       THEN IF c.boiler_mode = "thermostat"
            THEN IF c.use_dynamic_temperature /\ positions # <<>>
                 THEN LET target == calculate_dynamic_temperature(
                                      Val(avg), b, c.manual_on_temperature,
                                      c.manual_off_temperature)
                      IN Actuation(Some(target), avg,
                           "set_manual_temperature_thermostat",
                           set_manual_temperature_thermostat(b, target, oks))
                 ELSE Actuation(Some(c.manual_on_temperature), None,
                        "set_manual_temperature_thermostat",
                        set_manual_temperature_thermostat(
                          b, c.manual_on_temperature, oks))
            ELSE Actuation(None, None, "turn_on_boiler_toggle",
                   turn_on_boiler_toggle(c.boiler_entity, b, oks))
       ELSE IF c.boiler_mode = "thermostat"
            THEN Actuation(Some(c.manual_off_temperature), None,
                   "set_manual_off_temperature_thermostat",
                   set_manual_off_temperature_thermostat(
                     b, c.manual_off_temperature, oks))
            ELSE Actuation(None, None, "turn_off_boiler_toggle",
                   turn_off_boiler_toggle(c.boiler_entity, b, oks))
  ELSE Actuation(None, None, "", <<>>)

(***************************************************************************)
(* The end of poll_trv_entities: the invocations of publish_heating_stats  *)
(* of one cycle, in order.                                                 *)
(***************************************************************************)
(* Faulty variant: the statistics are published inside "if boiler_entity". *)
PublishStats_with_boiler_only(c, heating_active, count, avg, target) ==
  IF c.boiler_entity # ""
  THEN <<publish_heating_stats(heating_active, count, avg, target,
                               c.boiler_mode)>>
  ELSE <<>>

(* Faulty variant: without a boiler entity the cycle is reported as idle. *)
PublishStats_idle_without_boiler(c, heating_active, count, avg, target) ==
  IF c.boiler_entity # ""
  THEN <<publish_heating_stats(heating_active, count, avg, target,
                               c.boiler_mode)>>
  ELSE <<publish_heating_stats(FALSE, 0, avg, target, c.boiler_mode)>>

PublishStats(c, heating_active, count, avg, target) ==
  <<publish_heating_stats(heating_active, count, avg, target, c.boiler_mode)>>

(***************************************************************************)
(* poll_trv_entities: one polling cycle, from the loop over the TRVs to    *)
(* the call of publish_heating_stats.  oks are the outcomes of the service *)
(* calls the cycle makes, in the order it makes them.                      *)
(***************************************************************************)
MaxCallsPerCycle == 4

CallsPerCycle(c) ==
  IF c.boiler_entity = "" THEN 0
  ELSE IF c.boiler_mode = "thermostat" THEN MaxCallsPerCycle
  ELSE 1

Cycle(readings) ==
  /\ pc = "sleep"
  /\ \E loop \in {PollLoop(cfg, readings, 1,
                     [any_trv_heating |-> FALSE, valve_positions |-> <<>>,
                      resolved |-> <<>>])} :
     \E avg \in {AvgValvePosition(loop.valve_positions)} :
     \E count \in {CountHeating(Len(cfg.trv_entities), loop.any_trv_heating,
                                loop.valve_positions)} :
     \E sufficient \in {SufficientDemand(cfg, loop.any_trv_heating, count)} :
     \E oks \in [1..CallsPerCycle(cfg) -> BOOLEAN] :
     \E act \in {ManageBoiler(cfg, boiler, sufficient, loop.valve_positions,
                              avg, oks)} :
     \E stats \in {PublishStats(cfg, loop.any_trv_heating, count, avg,
                                act.target_temp)} :
       /\ any_trv_heating' = loop.any_trv_heating
       /\ valve_positions' = loop.valve_positions
       /\ resolved' = loop.resolved
       /\ avg_valve_position' = avg
       /\ trv_count_heating' = count
       /\ sufficient_demand' = sufficient
       /\ target_temp' = act.target_temp
       /\ calculator_input' = act.calculator_input
       /\ before_bounds' = (IF IsNone(act.calculator_input) THEN None
                            ELSE BeforeBounds(Val(act.calculator_input),
                                   boiler, cfg.manual_on_temperature,
                                   cfg.manual_off_temperature))
       /\ actuation' = act.actuation
       /\ calls' = act.calls
       /\ state_data' = (IF cfg.boiler_entity # "" THEN boiler ELSE None)
       /\ boiler' = RemoteEffects(boiler, act.calls)
       /\ published' = stats
       /\ events' = act.calls \o stats
  /\ pc' = "polled"
  /\ UNCHANGED <<cfg, history, responses>>
  /\ UNCHANGED otherVars

Poll ==
  /\ Cycle(trv)
  /\ requests' = <<>>
  /\ UNCHANGED trv

(***************************************************************************)
(* main(): the cycle has returned, its locals are gone, and the loop       *)
(* sleeps for polling_interval.  The cycle enters the history, which keeps *)
(* its length: the oldest cycle leaves it.                                 *)
(***************************************************************************)
CompletedCycle ==
  [trv |-> trv, state_data |-> state_data,
   sufficient_demand |-> sufficient_demand, target_temp |-> target_temp,
   calls |-> calls, mqtt_connected |-> mqtt_connected]

Remember(h, cycle) ==
  IF h = <<>> THEN <<>> ELSE Tail(h) \o <<Some(cycle)>>

Sleep ==
  /\ pc = "polled"
  /\ pc' = "sleep"
  /\ any_trv_heating' = FALSE
  /\ valve_positions' = <<>>
  /\ trv_count_heating' = 0
  /\ avg_valve_position' = None
  /\ sufficient_demand' = FALSE
  /\ target_temp' = None
  /\ calculator_input' = None
  /\ before_bounds' = None
  /\ actuation' = ""
  /\ calls' = <<>>
  /\ published' = None
  /\ events' = <<>>
  /\ resolved' = <<>>
  /\ state_data' = None
  /\ requests' = <<>>
  /\ history' = Remember(history, CompletedCycle)
  /\ UNCHANGED envVars
  /\ UNCHANGED otherVars

(***************************************************************************)
(* The environment between two cycles: a TRV or one of its sensors changes *)
(* what it reports, or the boiler entity is changed from outside.          *)
(***************************************************************************)
TRVChange ==
  /\ pc = "sleep"
  /\ \E i \in DOMAIN trv : \E r \in TRVReadings \ {trv[i]} :
       trv' = [trv EXCEPT ![i] = r]
  /\ UNCHANGED <<cfg, boiler, pc, history, responses>>
  /\ UNCHANGED cycleVars
  /\ UNCHANGED otherVars

BoilerChange ==
  /\ pc = "sleep"
  /\ boiler' \in BoilerStates(cfg) \ {boiler}
  /\ UNCHANGED <<cfg, trv, pc, history, responses>>
  /\ UNCHANGED cycleVars
  /\ UNCHANGED otherVars

Next ==
  \/ Poll
  \/ Sleep
  \/ TRVChange
  \/ BoilerChange

Spec == Init /\ [][Next]_vars

(***************************************************************************)
(* The resolution of a single TRV over a wide range of sensor readings:    *)
(* one TRV is configured, no boiler, and the entity store holds any        *)
(* combination of the TRV's attributes with the states of its valve-state  *)
(* and position sensors under the three naming patterns.                   *)
(***************************************************************************)
ValveStates ==
  {"open", "opened", "on", "true", "closed", "off", "false",
   "unknown", "unavailable", "OPEN", "Closed", "OFF"}

PositionStates ==
  {"0", "10", "20", "25", "40", "100", "unknown", "unavailable", ""}

(* The sensors of patterns j.. report s, those before j cannot be read. *)
FromPattern(j, s) == [k \in Patterns |-> IF k >= j THEN Some(s) ELSE None]

ValveSensors ==
  [Patterns -> {None, Some("closed"), Some("unknown")}]
    \cup { FromPattern(j, s) : j \in Patterns, s \in ValveStates }

PositionSensors ==
  [Patterns -> {None, Some("unknown"), Some("25"), Some("40")}]
    \cup { FromPattern(j, s) : j \in Patterns, s \in PositionStates }

FewValveSensors ==
  {NoSensor, FromPattern(1, "closed"), FromPattern(1, "unknown")}

FewPositionSensors ==
  {NoSensor, FromPattern(1, "25"), FromPattern(1, "40"), FromPattern(1, "unknown")}

TRVEntityStates ==
  {None, Attributes(None), Attributes(Some("heating")), Attributes(Some("idle"))}

(* Without "_trv" in the name the first two patterns name one entity. *)
SamePattern(entity_id, sensors) ==
  entity_id.trv_suffix \/ sensors[1] = sensors[2]

SingleTRVReadings(entity_id) ==
  IF ~HasDot(entity_id)
  THEN {Reading(None, NoSensor, NoSensor)}
  ELSE { r \in { Reading(e, v, p) : e \in TRVEntityStates,
                                     v \in ValveSensors,
                                     p \in FewPositionSensors }
               \cup { Reading(e, v, p) : e \in TRVEntityStates,
                                         v \in FewValveSensors,
                                         p \in PositionSensors } :
           /\ SamePattern(entity_id, r.valve)
           /\ SamePattern(entity_id, r.position) }

SingleTRVIds ==
  {EntityId(1, TRUE, TRUE), EntityId(1, TRUE, FALSE), EntityId(1, FALSE, FALSE)}

SingleTRVConfigs ==
  [trv_entities : { <<id>> : id \in SingleTRVIds },
   boiler_entity : {""},
   boiler_mode : {"thermostat"},
   check_valve_state : BOOLEAN,
   ignore_hvac_action : BOOLEAN,
   min_valve_position_threshold : {0, 25},
   min_trvs_heating : {1},
   use_dynamic_temperature : BOOLEAN,
   manual_on_temperature : {manual_on_temperature},
   manual_off_temperature : {manual_off_temperature}]

InitTRV ==
  /\ cfg \in SingleTRVConfigs
  /\ trv \in { <<r>> : r \in SingleTRVReadings(cfg.trv_entities[1]) }
  /\ boiler = None
  /\ pc = "sleep"
  /\ NoCycle
  /\ Quiet
  /\ responses = <<>>
  /\ history = <<>>

NextTRV ==
  \/ Poll
  \/ Sleep

SpecTRV == InitTRV /\ [][NextTRV]_vars

(***************************************************************************)
(* The boiler actuator over consecutive cycles: one TRV drives a boiler    *)
(* that is configured in either mode, the history keeps the cycles that    *)
(* completed before the current one, and between two cycles the TRV and    *)
(* the boiler may be changed from outside.  Any boiler_mode other than     *)
(* 'thermostat' selects the toggle actuators, also on a climate entity.    *)
(***************************************************************************)
ActuatorConfigs ==
  { c \in [trv_entities : {<<EntityId(1, TRUE, TRUE)>>},
           boiler_entity : {"climate.boiler", "switch.boiler"},
           boiler_mode : {"thermostat", "toggle", "auto"},
           check_valve_state : {FALSE},
           ignore_hvac_action : {FALSE},
           min_valve_position_threshold : {0},
           min_trvs_heating : {1},
           use_dynamic_temperature : BOOLEAN,
           manual_on_temperature : {manual_on_temperature},
           manual_off_temperature : {manual_off_temperature}] :
      c.boiler_mode = "thermostat" => c.boiler_entity = "climate.boiler" }

InitActuator ==
  /\ cfg \in ActuatorConfigs
  /\ trv \in { <<r>> : r \in TRVReadings }
  /\ boiler \in BoilerStates(cfg)
  /\ pc = "sleep"
  /\ NoCycle
  /\ Quiet
  /\ responses = <<>>
  /\ history = [k \in 1..HistoryLength |-> None]

NextActuator ==
  \/ Poll
  \/ Sleep
  \/ TRVChange
  \/ BoilerChange

SpecActuator == InitActuator /\ [][NextActuator]_vars

(***************************************************************************)
(* The dynamic temperature calculator on its own: the manual temperatures  *)
(* and the boiler are fixed by the initial state, and every step calls     *)
(* calculate_dynamic_temperature with some average valve position.  The    *)
(* temperatures include a boiler that is warmer than manual_on_temperature *)
(* or colder than manual_off_temperature, a boiler without a measured      *)
(* temperature or with one that is a string, one that cannot be read, and  *)
(* manual temperatures that are not multiples of half a degree or are in   *)
(* the wrong order.                                                        *)
(***************************************************************************)
ValvePositions == 0..MaxValvePosition

CalculatorConfigs ==
  [trv_entities : {<<EntityId(1, TRUE, TRUE)>>},
   boiler_entity : {"climate.boiler"},
   boiler_mode : {"thermostat"},
   check_valve_state : {TRUE},
   ignore_hvac_action : {FALSE},
   min_valve_position_threshold : {0},
   min_trvs_heating : {1},
   use_dynamic_temperature : {TRUE},
   manual_on_temperature : {180, manual_on_temperature, 213, 225},
   manual_off_temperature : {manual_off_temperature, 142, 155, 200}]

CalculatorBoilers ==
  {None} \cup { ClimateEntity(Some("none"), Some(manual_off_temperature), t) :
                  t \in {None} \cup
                        { Some(Number(n)) :
                            n \in {120, 160, 163, 178, 205, 230} } \cup
                        { Some(String(x)) : x \in {"16.5", "unknown", ""} } }

InitCalculator ==
  /\ cfg \in CalculatorConfigs
  /\ trv = <<Reading(None, NoSensor, NoSensor)>>
  /\ boiler \in CalculatorBoilers
  /\ pc = "sleep"
  /\ NoCycle
  /\ Quiet
  /\ responses = <<>>
  /\ history = <<>>

Calculate ==
  /\ pc = "sleep"
  /\ \E position \in ValvePositions :
       /\ calculator_input' = Some(position)
       /\ before_bounds' = BeforeBounds(position, boiler,
                                        cfg.manual_on_temperature,
                                        cfg.manual_off_temperature)
       /\ target_temp' = Some(calculate_dynamic_temperature(
                                position, boiler, cfg.manual_on_temperature,
                                cfg.manual_off_temperature))
  /\ UNCHANGED <<cfg, trv, boiler, pc, history, any_trv_heating,
                 valve_positions, trv_count_heating, avg_valve_position,
                 sufficient_demand, actuation, calls, published, events,
                 resolved, state_data, responses, requests>>
  /\ UNCHANGED otherVars

NextCalculator == Calculate

SpecCalculator == InitCalculator /\ [][NextCalculator]_vars

(***************************************************************************)
(* Three TRVs in front of a thermostat boiler that reports 16 degrees.     *)
(* Each TRV cannot be read, is idle, or is heating with its valve open or  *)
(* closed at 10% or 40%; the initial state fixes the readings and the      *)
(* boiler, and the cycles repeat.                                          *)
(***************************************************************************)
ScenarioTRVs ==
  <<EntityId(1, TRUE, TRUE), EntityId(2, TRUE, TRUE), EntityId(3, TRUE, TRUE)>>

ScenarioConfigs ==
  [trv_entities : {ScenarioTRVs},
   boiler_entity : {"climate.boiler"},
   boiler_mode : {"thermostat"},
   check_valve_state : BOOLEAN,
   ignore_hvac_action : BOOLEAN,
   min_valve_position_threshold : {0},
   min_trvs_heating : {1, 2},
   use_dynamic_temperature : BOOLEAN,
   manual_on_temperature : {manual_on_temperature},
   manual_off_temperature : {manual_off_temperature}]

HeatingOpenAt(position) ==
  Reading(Attributes(Some("heating")), <<Some("open"), None, None>>,
          <<Some(position), None, None>>)

ScenarioReadings ==
  { Reading(None, NoSensor, NoSensor),
    Reading(Attributes(Some("idle")), <<Some("closed"), None, None>>,
            <<Some("0"), None, None>>),
    HeatingOpenAt("10"),
    HeatingOpenAt("40"),
    Reading(Attributes(Some("heating")), <<Some("closed"), None, None>>,
            <<Some("40"), None, None>>) }

ScenarioBoilers ==
  { None,
    ClimateEntity(Some("schedule"), Some(manual_off_temperature),
                  Some(Number(160))),
    ClimateEntity(Some("none"), Some(165), Some(Number(160))) }

InitScenario ==
  /\ cfg \in ScenarioConfigs
  /\ trv \in [DOMAIN ScenarioTRVs -> ScenarioReadings]
  /\ boiler \in ScenarioBoilers
  /\ pc = "sleep"
  /\ NoCycle
  /\ Quiet
  /\ responses = <<>>
  /\ history = <<>>

NextScenario ==
  \/ Poll
  \/ Sleep

SpecScenario == InitScenario /\ [][NextScenario]_vars

(***************************************************************************)
(* The cycle with the reads of the TRV entities modelled request by        *)
(* request: the remote holds, for each TRV, its answers to successive      *)
(* requests, which may fail and may differ from one request to the next.   *)
(* The TRVs have no sensors and no boiler is configured.  Here trv[i] is   *)
(* what get_entity_state returned for TRV i in the last cycle.             *)
(***************************************************************************)
ReaderConfigs ==
  { c \in Configs :
      /\ c.boiler_entity = ""
      /\ ~c.check_valve_state
      /\ c.boiler_mode = "thermostat"
      /\ ~c.ignore_hvac_action
      /\ c.min_valve_position_threshold = 0
      /\ c.min_trvs_heating = 1
      /\ c.use_dynamic_temperature }

Answers ==
  { Answered(Attributes(Some("heating"))), Answered(Attributes(Some("idle"))),
    Failed("Timeout"), Failed("HTTPError") }

InitReader ==
  /\ cfg \in ReaderConfigs
  /\ trv = [i \in TRVs |-> Reading(None, NoSensor, NoSensor)]
  /\ boiler = None
  /\ pc = "sleep"
  /\ NoCycle
  /\ Quiet
  /\ responses \in [TRVs -> [1..MaxAttempts -> Answers]]
  /\ history = <<>>

PollThroughReader ==
  /\ \E reads \in {[i \in DOMAIN responses |-> get_entity_state(responses[i])]} :
     \E readings \in {[i \in DOMAIN reads |->
                         Reading(reads[i].result, NoSensor, NoSensor)]} :
       /\ \A i \in DOMAIN reads : ~reads[i].raised
       /\ requests' = [i \in DOMAIN reads |-> reads[i].requests]
       /\ trv' = readings
       /\ Cycle(readings)

NextReader ==
  \/ PollThroughReader
  \/ Sleep

SpecReader == InitReader /\ [][NextReader]_vars

(***************************************************************************)
(* The degraded configurations: no TRV is configured, or no boiler entity. *)
(* The entity store holds the TRVs and the boiler all the same.            *)
(***************************************************************************)
DegradedConfigs ==
  { c \in [trv_entities : {<<>>, PolledTRVs},
           boiler_entity : {"", "climate.boiler", "switch.boiler"},
           boiler_mode : {"thermostat", "toggle"},
           check_valve_state : BOOLEAN,
           ignore_hvac_action : BOOLEAN,
           min_valve_position_threshold : {0},
           min_trvs_heating : {1, 2},
           use_dynamic_temperature : BOOLEAN,
           manual_on_temperature : {manual_on_temperature},
           manual_off_temperature : {manual_off_temperature}] :
      /\ c.boiler_entity = "climate.boiler" => c.boiler_mode = "thermostat"
      /\ c.boiler_entity = "switch.boiler" => c.boiler_mode = "toggle"
      /\ c.trv_entities = <<>> \/ c.boiler_entity = "" }

InitDegraded ==
  /\ cfg \in DegradedConfigs
  /\ trv \in [TRVs -> TRVReadings]
  /\ boiler \in BoilerStates(cfg)
  /\ pc = "sleep"
  /\ NoCycle
  /\ Quiet
  /\ responses = <<>>
  /\ history = <<>>

NextDegraded ==
  \/ Poll
  \/ Sleep
  \/ BoilerChange

SpecDegraded == InitDegraded /\ [][NextDegraded]_vars

(***************************************************************************)
(* The aggregation of the valve positions: every TRV is heating and        *)
(* reports a position between 0% and 100%, one above 100%, or none, or     *)
(* cannot be read, in front of a thermostat boiler with dynamic            *)
(* temperature.  The initial state fixes the readings and the cycles       *)
(* repeat.                                                                 *)
(***************************************************************************)
AggregateConfigs ==
  [trv_entities : {PolledTRVs},
   boiler_entity : {"climate.boiler"},
   boiler_mode : {"thermostat"},
   check_valve_state : {FALSE},
   ignore_hvac_action : BOOLEAN,
   min_valve_position_threshold : {0, 25},
   min_trvs_heating : {1},
   use_dynamic_temperature : {TRUE},
   manual_on_temperature : {manual_on_temperature},
   manual_off_temperature : {manual_off_temperature}]

AggregatePositions == {"0", "10", "25", "40", "60", "100", "120", "unknown"}

AggregateReadings ==
  { Reading(None, NoSensor, NoSensor) }
    \cup { HeatingOpenAt(p) : p \in AggregatePositions }

InitAggregate ==
  /\ cfg \in AggregateConfigs
  /\ trv \in [TRVs -> AggregateReadings]
  /\ boiler = ClimateEntity(Some("none"), Some(manual_off_temperature),
                            Some(Number(160)))
  /\ pc = "sleep"
  /\ NoCycle
  /\ Quiet
  /\ responses = <<>>
  /\ history = <<>>

NextAggregate ==
  \/ Poll
  \/ Sleep

SpecAggregate == InitAggregate /\ [][NextAggregate]_vars

(***************************************************************************)
(* The MQTT callbacks, which paho-mqtt runs on its network thread          *)
(* (loop_start) at any moment: rc is the return code of the broker.        *)
(***************************************************************************)
ReturnCodes == {0, 5}

on_mqtt_connect ==
  /\ \E rc \in ReturnCodes : mqtt_connected' = (rc = 0)
  /\ UNCHANGED <<cfg, trv, boiler, pc, history, responses, publisher>>
  /\ UNCHANGED addonVars
  /\ UNCHANGED cycleVars

on_mqtt_disconnect ==
  /\ mqtt_connected' = FALSE
  /\ UNCHANGED <<cfg, trv, boiler, pc, history, responses, publisher>>
  /\ UNCHANGED addonVars
  /\ UNCHANGED cycleVars

(***************************************************************************)
(* The boiler actuator over consecutive cycles while the MQTT connection   *)
(* comes and goes: the history keeps, with each completed cycle, whether   *)
(* MQTT was connected when it ran.                                         *)
(***************************************************************************)
NoCacheConfigs ==
  { c \in ActuatorConfigs : /\ c.boiler_mode \in {"thermostat", "toggle"}
                            /\ c.use_dynamic_temperature }

InitNoCache ==
  /\ cfg \in NoCacheConfigs
  /\ trv \in { <<r>> : r \in TRVReadings }
  /\ boiler \in BoilerStates(cfg)
  /\ pc = "sleep"
  /\ NoCycle
  /\ mqtt_connected \in BOOLEAN
  /\ publisher = NotPublishing
  /\ AddonsOff
  /\ responses = <<>>
  /\ history = [k \in 1..HistoryLength |-> None]

NextNoCache ==
  \/ Poll
  \/ Sleep
  \/ TRVChange
  \/ BoilerChange
  \/ on_mqtt_connect
  \/ on_mqtt_disconnect

SpecNoCache == InitNoCache /\ [][NextNoCache]_vars

(***************************************************************************)
(* publish_heating_stats taken statement by statement, on the main thread, *)
(* while the MQTT callbacks run on the network thread.  The log keeps, for *)
(* every statistic the publisher came to, the channel it was handed to:    *)
(* "mqtt" (mqtt_client.publish), "rest" (requests.post), or "none" when    *)
(* publish_mqtt_state returned False without publishing or logging.        *)
(* ok is whether the channel accepted the value; a failure is logged.      *)
(***************************************************************************)
Handed(sensor_id, channel, ok) ==
  [sensor_id |-> sensor_id, channel |-> channel, ok |-> ok]

publish_mqtt_state(connected, sensor_id, ok) ==
  IF ~connected
  THEN Handed(sensor_id, "none", FALSE)
  ELSE Handed(sensor_id, "mqtt", ok)

set_entity_state(sensor_id, ok) == Handed(sensor_id, "rest", ok)

Sensors == <<"status", "trvs_heating", "avg_valve_position", "target_temp">>

(* The conditions under which publish_heating_stats comes to a statistic. *)
Due(args, sensor_id) ==
  CASE sensor_id = "avg_valve_position" -> args.avg_valve_position # None
    [] sensor_id = "target_temp" ->
         args.boiler_mode = "thermostat" /\ args.target_temp # None
    [] OTHER -> TRUE

(* The position after the statistic at position k: the next one that is   *)
(* due, or "done".                                                         *)
RECURSIVE NextSensor(_, _)
NextSensor(args, k) ==
  IF k >= Len(Sensors) THEN "done"
  ELSE IF Due(args, Sensors[k + 1]) THEN Sensors[k + 1]
  ELSE NextSensor(args, k + 1)

PublisherArgs ==
  { publish_heating_stats(h, n, avg, t, m) :
      h \in BOOLEAN, n \in {0, 1}, avg \in {None, Some(25)},
      t \in {None, Some(manual_on_temperature)},
      m \in {"thermostat", "toggle"} }

(* poll_trv_entities calls publish_heating_stats. *)
EnterPublisher ==
  /\ publisher.pc = "done"
  /\ \E args \in PublisherArgs :
       publisher' = [pc |-> "test", branch |-> "", args |-> Some(args),
                     log |-> <<>>]
  /\ UNCHANGED <<cfg, trv, boiler, pc, history, responses, mqtt_connected>>
  /\ UNCHANGED addonVars
  /\ UNCHANGED cycleVars

(* "if mqtt_connected:" *)
TestConnected ==
  /\ publisher.pc = "test"
  /\ publisher' = [publisher EXCEPT
                     !.pc = "status",
                     !.branch = IF mqtt_connected THEN "mqtt" ELSE "rest"]
  /\ UNCHANGED <<cfg, trv, boiler, pc, history, responses, mqtt_connected>>
  /\ UNCHANGED addonVars
  /\ UNCHANGED cycleVars

(* One publish_mqtt_state(...) or set_entity_state(...) statement. *)
PublishStatistic ==
  /\ publisher.pc \notin {"done", "test"}
  /\ \E k \in DOMAIN Sensors : \E ok \in BOOLEAN :
       /\ Sensors[k] = publisher.pc
       /\ publisher' = [publisher EXCEPT
            !.pc = NextSensor(Val(publisher.args), k),
            !.log = Append(@,
                     IF publisher.branch = "mqtt"
                     THEN publish_mqtt_state(mqtt_connected, Sensors[k], ok)
                     ELSE set_entity_state(Sensors[k], ok))]
  /\ UNCHANGED <<cfg, trv, boiler, pc, history, responses, mqtt_connected>>
  /\ UNCHANGED addonVars
  /\ UNCHANGED cycleVars

InitPublisher ==
  /\ cfg \in ReaderConfigs
  /\ trv = [i \in TRVs |-> Reading(None, NoSensor, NoSensor)]
  /\ boiler = None
  /\ pc = "sleep"
  /\ NoCycle
  /\ mqtt_connected \in BOOLEAN
  /\ publisher = NotPublishing
  /\ AddonsOff
  /\ responses = <<>>
  /\ history = <<>>

NextPublisher ==
  \/ EnterPublisher
  \/ TestConnected
  \/ PublishStatistic
  \/ on_mqtt_connect
  \/ on_mqtt_disconnect

SpecPublisher == InitPublisher /\ [][NextPublisher]_vars

(***************************************************************************)
(* The power-permission check of the display add-on.  An answer of the     *)
(* supervisor is a response with a status code, or None when the request   *)
(* raised (timeout, connection error).                                     *)
(***************************************************************************)
Response(status_code) == Some([status_code |-> status_code])

(* bool(response) as "response and ..." takes it: None is false, and a     *)
(* requests.Response is true when its status code is below 400.            *)
Truthy(response) ==
  ~IsNone(response) /\ Val(response).status_code < 400

(* SupervisorAPI.request: the response, or None when the request raised. *)
request(answer) == answer

Permissions(enabled, message) == [enabled |-> enabled, message |-> message]

(* Faulty variant: access to supervisor/info is enough. *)
SupervisorAPI_check_power_permissions_info_only(token, supervisor_info, host_info) ==
  IF ~token
  THEN Permissions(FALSE, "No supervisor token available")
  ELSE LET response == request(supervisor_info) IN
       IF Truthy(response) /\ Val(response).status_code = 200
       THEN Permissions(TRUE, "Addon has host control permissions")
       ELSE Permissions(FALSE, "Cannot access supervisor API")

(* SupervisorAPI.check_power_permissions: the tuple it returns. *)
SupervisorAPI_check_power_permissions(token, supervisor_info, host_info) ==
  IF ~token
  THEN Permissions(FALSE, "No supervisor token available")
  ELSE LET response == request(supervisor_info) IN
       IF Truthy(response) /\ Val(response).status_code = 200
       THEN LET test_response == request(host_info) IN
            IF Truthy(test_response) /\ Val(test_response).status_code = 200
            THEN Permissions(TRUE, "Addon has host control permissions")
            ELSE IF Truthy(test_response) /\ Val(test_response).status_code = 403
            THEN Permissions(FALSE, "Addon lacks 'manager' role permissions")
            ELSE Permissions(FALSE, "Unexpected response from host endpoint")
       ELSE Permissions(FALSE, "Cannot access supervisor API")

(* ArgonOLED.check_power_permissions: the value it leaves in               *)
(* self.power_management_enabled.  A request that raises is caught by the  *)
(* "except Exception" around the whole check.                              *)
ArgonOLED_check_power_permissions(token, supervisor_info, host_info) ==
  IF ~token THEN FALSE
  ELSE IF IsNone(supervisor_info) THEN FALSE
  ELSE IF Val(supervisor_info).status_code = 200
  THEN IF IsNone(host_info) THEN FALSE
       ELSE IF Val(host_info).status_code = 200 THEN TRUE
       ELSE IF Val(host_info).status_code = 403 THEN FALSE
       ELSE FALSE
  ELSE FALSE

StatusCodes == {200, 201, 401, 403, 500}

SupervisorAnswers == {None} \cup { Response(n) : n \in StatusCodes }

(* ArgonOLED.__init__ runs its permission check; the same supervisor is    *)
(* asked through SupervisorAPI.check_power_permissions.                    *)
CheckPermissions ==
  /\ display.pc = "init"
  /\ oled' = [oled EXCEPT !.power_management_enabled =
                ArgonOLED_check_power_permissions(
                  host.token, host.supervisor_info, host.host_info)]
  /\ display' = [display EXCEPT
                !.pc = "constructed",
                !.permissions = Some(SupervisorAPI_check_power_permissions(
                  host.token, host.supervisor_info, host.host_info))]
  /\ UNCHANGED <<cfg, trv, boiler, pc, history, responses, mqtt_connected,
                 publisher, monitor, host, fan>>
  /\ UNCHANGED cycleVars

InitPermissions ==
  /\ cfg \in ReaderConfigs
  /\ trv = [i \in TRVs |-> Reading(None, NoSensor, NoSensor)]
  /\ boiler = None
  /\ pc = "sleep"
  /\ NoCycle
  /\ mqtt_connected = FALSE
  /\ publisher = NotPublishing
  /\ oled = NewArgonOLED
  /\ monitor = MonitorOff
  /\ display = [DisplayOff EXCEPT !.pc = "init"]
  /\ host \in { [HostOff EXCEPT !.token = t, !.supervisor_info = a,
                                !.host_info = b] :
                  t \in BOOLEAN, a \in SupervisorAnswers,
                  b \in SupervisorAnswers }
  /\ fan = NewArgonFanController
  /\ responses = <<>>
  /\ history = <<>>

NextPermissions == CheckPermissions

SpecPermissions == InitPermissions /\ [][NextPermissions]_vars

(***************************************************************************)
(* The fan controller (argon-fan-addon).  bus.write_byte either reaches    *)
(* the MCU, which then runs the fan at that byte, or raises IOError.       *)
(***************************************************************************)
Write(byte, ok) == [byte |-> byte, ok |-> ok]

(* max(0, min(100, speed)) *)
Clamp(speed) == Max(0, Min(100, speed))

(* The writes of one call of set_fan_speed with the clamped speed, in      *)
(* order, up to the first that raises.  oks[k] is whether the k-th write   *)
(* of the call reaches the MCU.  A call that lowers the speed and is not   *)
(* instantaneous sleeps 30 s first (delayed).                              *)
SpeedWrites(speed, current_speed, oks) ==
  IF speed # current_speed
  THEN IF speed > 0
       THEN IF oks[1]
            THEN <<Write(100, TRUE), Write(speed, oks[2])>>
            ELSE <<Write(100, FALSE)>>
       ELSE <<Write(speed, oks[1])>>
  ELSE <<>>

AllWritten(writes) == \A k \in DOMAIN writes : writes[k].ok

(* The last byte the MCU accepted, after the writes of a call. *)
RECURSIVE Accepted(_, _)
Accepted(mcu, writes) ==
  IF writes = <<>> THEN mcu
  ELSE Accepted(IF Head(writes).ok THEN Some(Head(writes).byte) ELSE mcu,
                Tail(writes))

RequestedSpeeds == {-10, 0, 30, 45, 60, 100, 120}

MaxWritesPerCall == 2

(* ArgonFanController.set_fan_speed(speed, instantaneous). *)
set_fan_speed ==
  \E requested \in RequestedSpeeds : \E instantaneous \in BOOLEAN :
  \E oks \in [1..MaxWritesPerCall -> BOOLEAN] :
  \E speed \in {Clamp(requested)} :
  \E writes \in {SpeedWrites(speed, fan.current_speed, oks)} :
    /\ fan' = [current_speed |-> IF writes # <<>> /\ AllWritten(writes)
                                 THEN speed ELSE fan.current_speed,
               mcu |-> Accepted(fan.mcu, writes),
               call |-> Some([requested |-> requested, speed |-> speed,
                              before |-> fan.current_speed,
                              delayed |-> speed < fan.current_speed
                                            /\ ~instantaneous,
                              writes |-> writes])]
    /\ UNCHANGED <<cfg, trv, boiler, pc, history, responses, mqtt_connected,
                   publisher, oled, monitor, display, host>>
    /\ UNCHANGED cycleVars

InitFan ==
  /\ cfg \in ReaderConfigs
  /\ trv = [i \in TRVs |-> Reading(None, NoSensor, NoSensor)]
  /\ boiler = None
  /\ pc = "sleep"
  /\ NoCycle
  /\ Quiet
  /\ responses = <<>>
  /\ history = <<>>

NextFan == set_fan_speed

SpecFan == InitFan /\ [][NextFan]_vars

(***************************************************************************)
(* The button of the display add-on: button_monitor on its own thread and  *)
(* the loop of run on the main thread, statement by statement where they   *)
(* touch the fields they share.  Times are in tenths of a second; the hold *)
(* loop is followed from one mark to the next, the marks being the times   *)
(* at which the code changes its behaviour.  The button is pressed and     *)
(* released from outside at any moment.                                    *)
(***************************************************************************)
MaxPresses == 2

NumScreens == 3

LongPress == 6
RebootHold == 100
ShutdownHold == 150

CountdownSteps == 5
SamplesPerStep == 10

(* The hold time at which the hold loop next changes what it does. *)
NextMark(hold) ==
  IF hold < LongPress THEN LongPress
  ELSE IF hold < RebootHold THEN RebootHold
  ELSE ShutdownHold

(* Faulty variant: the selection does not look at power_management_enabled. *)
PowerAction_unchecked(total_hold, power_management_enabled) ==
  IF total_hold >= ShutdownHold THEN "shutdown"
  ELSE IF total_hold >= RebootHold THEN "reboot"
  ELSE ""

(* The if / elif chain after the release: the host action selected,        *)
(* "no permission" when the hold was long enough but power management is   *)
(* disabled, "" for a shorter press.                                       *)
PowerAction(total_hold, power_management_enabled) ==
  IF total_hold >= ShutdownHold /\ power_management_enabled THEN "shutdown"
  ELSE IF total_hold >= ShutdownHold /\ ~power_management_enabled
  THEN "no permission"
  ELSE IF total_hold >= RebootHold /\ power_management_enabled THEN "reboot"
  ELSE IF total_hold >= RebootHold /\ ~power_management_enabled
  THEN "no permission"
  ELSE ""

(* The action button_monitor stores for a press, None if it stores none. *)
ButtonAction(press_count, pulsetime) ==
  IF press_count >= 2 THEN Some("prev")
  ELSE IF pulsetime >= LongPress THEN Some("first")
  ELSE IF press_count = 1 THEN Some("next")
  ELSE None

(* The button, from outside. *)
Press ==
  /\ ~host.pressed
  /\ host.presses < MaxPresses
  /\ host' = [host EXCEPT !.pressed = TRUE, !.presses = @ + 1]
  /\ UNCHANGED <<cfg, trv, boiler, pc, history, responses, mqtt_connected,
                 publisher, oled, monitor, display, fan>>
  /\ UNCHANGED cycleVars

Release ==
  /\ host.pressed
  /\ host' = [host EXCEPT !.pressed = FALSE]
  /\ UNCHANGED <<cfg, trv, boiler, pc, history, responses, mqtt_connected,
                 publisher, oled, monitor, display, fan>>
  /\ UNCHANGED cycleVars

(* button_monitor, the outer loop: the button is found pressed. *)
PollButton ==
  /\ monitor.pc = "poll"
  /\ host.pressed
  /\ monitor' = [monitor EXCEPT !.pc = "held", !.hold = 1,
                                !.reboot_displayed = FALSE,
                                !.shutdown_displayed = FALSE]
  /\ UNCHANGED <<cfg, trv, boiler, pc, history, responses, mqtt_connected,
                 publisher, oled, display, host, fan>>
  /\ UNCHANGED cycleVars

(* The hold loop while the button stays pressed, up to the next mark. *)
HoldOn ==
  /\ monitor.pc = "held"
  /\ host.pressed
  /\ monitor.hold < ShutdownHold
  /\ \E hold_time \in {NextMark(monitor.hold)} :
       IF hold_time >= ShutdownHold /\ ~monitor.shutdown_displayed
       THEN /\ monitor' = [monitor EXCEPT !.hold = hold_time,
                                          !.shutdown_displayed = TRUE]
            /\ UNCHANGED oled
       ELSE IF /\ hold_time >= RebootHold
               /\ ~monitor.reboot_displayed
               /\ ~monitor.shutdown_displayed
       THEN /\ monitor' = [monitor EXCEPT !.hold = hold_time,
                                          !.reboot_displayed = TRUE]
            /\ oled' = [oled EXCEPT !.button_in_power_hold = TRUE]
       ELSE /\ monitor' = [monitor EXCEPT !.hold = hold_time]
            /\ UNCHANGED oled
  /\ UNCHANGED <<cfg, trv, boiler, pc, history, responses, mqtt_connected,
                 publisher, display, host, fan>>
  /\ UNCHANGED cycleVars

(* The hold loop finds the button released.  total_hold is measured then, *)
(* after the last hold_time the loop looked at, so it may have passed the  *)
(* next mark.                                                              *)
SeeRelease ==
  /\ monitor.pc = "held"
  /\ ~host.pressed
  /\ \E total_hold \in {monitor.hold, NextMark(monitor.hold)} :
       monitor' = [monitor EXCEPT !.pc = "released",
                                  !.total_hold = total_hold,
                                  !.pulsetime = total_hold]
  /\ UNCHANGED <<cfg, trv, boiler, pc, history, responses, mqtt_connected,
                 publisher, oled, display, host, fan>>
  /\ UNCHANGED cycleVars

(* "except Exception as read_error": a read of the button raises in the   *)
(* hold loop, and the outer loop starts over.                              *)
ReadError ==
  /\ monitor.pc = "held"
  /\ monitor' = [monitor EXCEPT !.pc = "poll"]
  /\ UNCHANGED <<cfg, trv, boiler, pc, history, responses, mqtt_connected,
                 publisher, oled, display, host, fan>>
  /\ UNCHANGED cycleVars

(* "if total_hold >= 15.0 and self.power_management_enabled: ... elif" *)
SelectPowerAction ==
  /\ monitor.pc = "released"
  /\ \E selected \in {PowerAction(monitor.total_hold,
                                  oled.power_management_enabled)} :
       monitor' = [monitor EXCEPT
                     !.selected = selected,
                     !.pc = IF selected \in {"shutdown", "reboot"}
                            THEN "await release" ELSE "pressed"]
  /\ UNCHANGED <<cfg, trv, boiler, pc, history, responses, mqtt_connected,
                 publisher, oled, display, host, fan>>
  /\ UNCHANGED cycleVars

(* "Wait for button to be released first", then the countdown starts. *)
AwaitRelease ==
  /\ monitor.pc = "await release"
  /\ ~host.pressed
  /\ monitor' = [monitor EXCEPT !.pc = "countdown",
                                !.countdown = CountdownSteps,
                                !.sample = 1, !.cancelled = FALSE]
  /\ UNCHANGED <<cfg, trv, boiler, pc, history, responses, mqtt_connected,
                 publisher, oled, display, host, fan>>
  /\ UNCHANGED cycleVars

(* One pass of "for _ in range(10)": the button is read; a read that       *)
(* raises is passed over.                                                  *)
Sample ==
  /\ monitor.pc = "countdown"
  /\ \E raised \in BOOLEAN :
       IF host.pressed /\ ~raised
       THEN /\ monitor' = [monitor EXCEPT !.cancelled = TRUE, !.pc = "pressed"]
            /\ oled' = [oled EXCEPT !.button_in_power_hold = FALSE]
       ELSE /\ monitor' =
                 IF monitor.sample < SamplesPerStep
                 THEN [monitor EXCEPT !.sample = @ + 1]
                 ELSE IF monitor.countdown > 1
                 THEN [monitor EXCEPT !.sample = 1, !.countdown = @ - 1]
                 ELSE [monitor EXCEPT !.pc = "execute"]
            /\ UNCHANGED oled
  /\ UNCHANGED <<cfg, trv, boiler, pc, history, responses, mqtt_connected,
                 publisher, display, host, fan>>
  /\ UNCHANGED cycleVars

(* "if not cancelled:" the POST to the supervisor, then sys.exit(0), which *)
(* ends the thread.                                                        *)
Execute ==
  /\ monitor.pc = "execute"
  /\ ~monitor.cancelled
  /\ host' = [host EXCEPT !.posts = Append(@, monitor.selected)]
  /\ monitor' = [monitor EXCEPT !.pc = "exited"]
  /\ UNCHANGED <<cfg, trv, boiler, pc, history, responses, mqtt_connected,
                 publisher, oled, display, fan>>
  /\ UNCHANGED cycleVars

(* The end of the outer loop: the press is counted and its action stored.  *)
(* near is whether the press ended within 0.5 s of the one before.         *)
StoreAction ==
  /\ monitor.pc = "pressed"
  /\ \E near \in BOOLEAN :
     \E press_count \in {IF near THEN monitor.press_count + 1 ELSE 1} :
     \E action \in {ButtonAction(press_count, monitor.pulsetime)} :
       /\ oled' = [oled EXCEPT !.button_action =
                     IF IsNone(action) THEN @ ELSE Some(Val(action))]
       /\ monitor' = [monitor EXCEPT
                        !.pc = "poll",
                        !.press_count = IF IsNone(action) THEN press_count
                                        ELSE 0,
                        !.stored = IF IsNone(action) THEN @
                                   ELSE Append(@, Val(action))]
  /\ UNCHANGED <<cfg, trv, boiler, pc, history, responses, mqtt_connected,
                 publisher, display, host, fan>>
  /\ UNCHANGED cycleVars

(* run, "if self.button_action:"; without an action the screen rotates     *)
(* when switch_duration has elapsed and no power hold is under way.        *)
TestAction ==
  /\ display.pc = "top"
  /\ IF oled.button_action # None
     THEN /\ display' = [display EXCEPT !.pc = "next?"]
          /\ UNCHANGED oled
     ELSE /\ display' = [display EXCEPT !.pc = "draw"]
          /\ \E elapsed \in BOOLEAN :
               oled' = IF elapsed /\ ~oled.button_in_power_hold
                       THEN [oled EXCEPT !.current_screen =
                               (@ + 1) % NumScreens]
                       ELSE oled
  /\ UNCHANGED <<cfg, trv, boiler, pc, history, responses, mqtt_connected,
                 publisher, monitor, host, fan>>
  /\ UNCHANGED cycleVars

(* The three comparisons of button_action, each reading the field anew. *)
Compare(at, action, screen, otherwise) ==
  /\ display.pc = at
  /\ IF oled.button_action = Some(action)
     THEN /\ oled' = [oled EXCEPT !.current_screen = screen]
          /\ display' = [display EXCEPT !.pc = "clear",
                                        !.applied = Append(@, action)]
     ELSE /\ display' = [display EXCEPT !.pc = otherwise]
          /\ UNCHANGED oled
  /\ UNCHANGED <<cfg, trv, boiler, pc, history, responses, mqtt_connected,
                 publisher, monitor, host, fan>>
  /\ UNCHANGED cycleVars

IsNext ==
  Compare("next?", "next", (oled.current_screen + 1) % NumScreens, "prev?")

IsPrev ==
  Compare("prev?", "prev", (oled.current_screen - 1) % NumScreens, "first?")

IsFirst == Compare("first?", "first", 0, "clear")

(* "self.button_action = None" *)
ClearAction ==
  /\ display.pc = "clear"
  /\ oled' = [oled EXCEPT !.button_action = None]
  /\ display' = [display EXCEPT !.pc = "draw"]
  /\ UNCHANGED <<cfg, trv, boiler, pc, history, responses, mqtt_connected,
                 publisher, monitor, host, fan>>
  /\ UNCHANGED cycleVars

(* "if not self.button_in_power_hold: self.display_screen(...)", sleep. *)
Draw ==
  /\ display.pc = "draw"
  /\ display' = [display EXCEPT !.pc = "top"]
  /\ UNCHANGED <<cfg, trv, boiler, pc, history, responses, mqtt_connected,
                 publisher, oled, monitor, host, fan>>
  /\ UNCHANGED cycleVars

InitOLED ==
  /\ cfg \in ReaderConfigs
  /\ trv = [i \in TRVs |-> Reading(None, NoSensor, NoSensor)]
  /\ boiler = None
  /\ pc = "sleep"
  /\ NoCycle
  /\ mqtt_connected = FALSE
  /\ publisher = NotPublishing
  /\ oled \in { [NewArgonOLED EXCEPT !.power_management_enabled = e] :
                  e \in BOOLEAN }
  /\ monitor = [MonitorOff EXCEPT !.pc = "poll"]
  /\ display = [DisplayOff EXCEPT !.pc = "top"]
  /\ host = HostOff
  /\ fan = NewArgonFanController
  /\ responses = <<>>
  /\ history = <<>>

ButtonMonitor ==
  \/ PollButton
  \/ HoldOn
  \/ SeeRelease
  \/ ReadError
  \/ SelectPowerAction
  \/ AwaitRelease
  \/ Sample
  \/ Execute
  \/ StoreAction

MainLoop ==
  \/ TestAction
  \/ IsNext
  \/ IsPrev
  \/ IsFirst
  \/ ClearAction
  \/ Draw

NextOLED ==
  \/ Press
  \/ Release
  \/ ButtonMonitor
  \/ MainLoop

SpecOLED == InitOLED /\ [][NextOLED]_vars

(***************************************************************************)
(* The same two threads under fair scheduling: each thread that can take a *)
(* step eventually takes one, and a pressed button is eventually released. *)
(***************************************************************************)
SpecOLEDFair ==
  /\ InitOLED
  /\ [][NextOLED]_vars
  /\ WF_vars(Release)
  /\ WF_vars(ButtonMonitor)
  /\ WF_vars(MainLoop)

(***************************************************************************)
(* Properties.                                                             *)
(***************************************************************************)
Polled == pc = "polled"

BoilerConfigured == cfg.boiler_entity # ""

(* The TRVs that passed the demand policy in the cycle that has run. *)
Demanding == { i \in DOMAIN resolved : resolved[i].is_heating }

DemandFunctions == {"set_manual_temperature_thermostat", "turn_on_boiler_toggle"}

IdleFunction ==
  IF cfg.boiler_mode = "thermostat"
  THEN "set_manual_off_temperature_thermostat"
  ELSE "turn_off_boiler_toggle"

DemandFunction ==
  IF cfg.boiler_mode = "thermostat"
  THEN "set_manual_temperature_thermostat"
  ELSE "turn_on_boiler_toggle"

Least(S) == CHOOSE k \in S : \A j \in S : k <= j

(* The sensors of a TRV read straight from the entity store. *)
NumericStates == {"0", "10", "20", "25", "40", "60", "100", "120"}

ClosedStates == {"closed", "off", "false"}

OpenStates == {"open", "opened", "on", "true"}

Readable(sensors) == { k \in DOMAIN sensors : sensors[k] # None }

Numeric(sensors) ==
  { k \in Readable(sensors) : Val(sensors[k]) \in NumericStates }

ReportedPosition(sensors) ==
  IF Numeric(sensors) = {} THEN None
  ELSE ParseFloat(Val(sensors[Least(Numeric(sensors))]))

(* The demanding TRVs that reported a position, and the sum of these. *)
DemandingWithPosition ==
  { i \in Demanding : ReportedPosition(trv[i].position) # None }

RECURSIVE PositionSum(_)
PositionSum(S) ==
  IF S = {} THEN 0
  ELSE LET i == CHOOSE j \in S : TRUE
       IN Val(ReportedPosition(trv[i].position)) + PositionSum(S \ {i})

(* C1: whenever fewer TRVs demand heat than min_trvs_heating, the cycle   *)
(* finds the demand insufficient and drives the boiler to idle, never to  *)
(* demand.                                                                 *)
C1_ThresholdGating ==
  (Polled /\ Cardinality(Demanding) < cfg.min_trvs_heating)
    => /\ ~sufficient_demand
       /\ actuation \notin DemandFunctions
       /\ BoilerConfigured => actuation = IdleFunction

(* C2: the count computed in a cycle, and published, is the number of     *)
(* configured TRVs that passed the demand policy.                          *)
C2_CountIsDemanding ==
  Polled => /\ trv_count_heating = Cardinality(Demanding)
            /\ Val(published).trv_count_heating = Cardinality(Demanding)

(* C3: a count of zero implies that no TRV is heating; whenever a TRV is  *)
(* resolved as demanding, the count is at least one.                       *)
C3_ZeroCountNoHeating ==
  Polled => /\ trv_count_heating = 0 => ~any_trv_heating
            /\ Demanding # {} => trv_count_heating >= 1
            /\ Val(published).trv_count_heating = 0
                 => ~Val(published).heating_active

C3_Witness ==
  /\ Polled
  /\ trv_count_heating = 0
  /\ ~any_trv_heating
  /\ \E i \in DOMAIN trv :
       /\ trv[i].entity # None
       /\ Val(trv[i].entity).hvac_action = Some("heating")

C3_WitnessHeating ==
  /\ Polled
  /\ any_trv_heating
  /\ valve_positions = <<>>
  /\ trv_count_heating >= 1

(* C4: with a boiler configured, the cycle calls the demand actuator of   *)
(* its mode exactly when a TRV is heating and the count reaches           *)
(* min_trvs_heating, and the idle actuator of its mode otherwise; the     *)
(* calls it issues are those of that actuator.                            *)
C4_ActuationIffSufficient ==
  (Polled /\ BoilerConfigured)
    => LET demand == any_trv_heating /\ trv_count_heating >= cfg.min_trvs_heating
       IN /\ actuation = IF demand THEN DemandFunction ELSE IdleFunction
          /\ \A k \in DOMAIN calls :
               IF cfg.boiler_mode = "thermostat"
               THEN /\ calls[k].service \in {"set_preset_mode", "set_temperature"}
                    /\ (calls[k].service = "set_temperature" /\ ~demand)
                         => calls[k].temperature = Some(manual_off_temperature)
                    /\ (calls[k].service = "set_temperature" /\ demand)
                         => calls[k].temperature = target_temp
               ELSE calls[k].service = IF demand THEN "turn_on" ELSE "turn_off"

C4_Witness ==
  /\ Polled
  /\ BoilerConfigured
  /\ any_trv_heating
  /\ trv_count_heating < cfg.min_trvs_heating
  /\ actuation = IdleFunction
  /\ calls # <<>>

(* C10 as stated: the average valve position of a cycle, as handed to the *)
(* calculator and to the publisher, is the arithmetic mean of the         *)
(* positions of the demanding TRVs that reported one, and null when none  *)
(* did.                                                                    *)
C10_AverageIsMean ==
  Polled =>
    LET n == Cardinality(DemandingWithPosition)
        sum == PositionSum(DemandingWithPosition)
    IN /\ n = 0 => avg_valve_position = None
       /\ n > 0 => /\ avg_valve_position # None
                   /\ Val(avg_valve_position) * n = sum
       /\ Val(published).avg_valve_position = avg_valve_position

(* The least of 0, 25, 50, 75, 100 that is not below sum / n; 100 if none. *)
RoundedUpMean(sum, n) ==
  LET steps == { m \in {0, 25, 50, 75, 100} : sum <= m * n }
  IN IF steps = {} THEN 100 ELSE Least(steps)

(* C10 amended: the average valve position of a cycle is the arithmetic   *)
(* mean of the positions of the demanding TRVs that reported one, rounded *)
(* up to the next of 0, 25, 50, 75, 100 (100 above 75), when              *)
(* use_dynamic_temperature is enabled; it is null when no demanding TRV   *)
(* reported a position or use_dynamic_temperature is disabled.  This is   *)
(* the value published, and the value the calculator receives when it is  *)
(* called.                                                                 *)
C10_AverageIsRoundedUpMean ==
  Polled =>
    LET n == Cardinality(DemandingWithPosition)
        sum == PositionSum(DemandingWithPosition)
        expected == IF cfg.use_dynamic_temperature /\ n > 0
                    THEN Some(RoundedUpMean(sum, n))
                    ELSE None
    IN /\ avg_valve_position = expected
       /\ Val(published).avg_valve_position = expected
       /\ calculator_input \in {None, expected}
       /\ ( /\ actuation = "set_manual_temperature_thermostat"
            /\ expected # None )
            => calculator_input = expected

C10_Witness ==
  /\ Polled
  /\ Cardinality(DemandingWithPosition) = 2
  /\ PositionSum(DemandingWithPosition) = 50
  /\ avg_valve_position = Some(25)
  /\ calculator_input = Some(25)

C10_WitnessRounded ==
  /\ Polled
  /\ Cardinality(DemandingWithPosition) = 1
  /\ PositionSum(DemandingWithPosition) = 10
  /\ avg_valve_position = Some(25)

(* What the valve-state sensors say, read straight from the entity store:  *)
(* the state of the first sensor that can be read.                         *)
FirstValveState(sensors) == Val(sensors[Least(Readable(sensors))])

ValveClosed(sensors) ==
  /\ Readable(sensors) # {}
  /\ Lower(FirstValveState(sensors)) \in ClosedStates

HvacHeating(i) ==
  /\ trv[i].entity # None
  /\ Val(trv[i].entity).hvac_action = Some("heating")

(* The TRV passes the hvac_action and valve-state test. *)
PassesHvacAndValve(i) ==
  /\ HvacHeating(i)
  /\ ~cfg.check_valve_state \/ ~ValveClosed(trv[i].valve)

AboveThreshold(i) ==
  /\ ReportedPosition(trv[i].position) # None
  /\ Val(ReportedPosition(trv[i].position)) > cfg.min_valve_position_threshold

(* Demand as the hvac_action policy gives it once the valve-state check   *)
(* does not suppress it.                                                   *)
DemandPastValveCheck(i) ==
  \/ cfg.min_valve_position_threshold <= 0
  \/ ReportedPosition(trv[i].position) = None
  \/ AboveThreshold(i)

(* C5 as stated: if no valve-state sensor can be read, or the sensor that *)
(* is read reports a string outside {open, opened, on, true, closed, off, *)
(* false}, get_valve_state returns open and the heating TRV is not        *)
(* suppressed by the valve-state check.                                   *)
C5_FailOpen ==
  Polled =>
    \A i \in DOMAIN resolved :
      ( /\ resolved[i].valve_open # None
        /\ \/ Readable(trv[i].valve) = {}
           \/ FirstValveState(trv[i].valve) \notin (OpenStates \cup ClosedStates) )
        => /\ resolved[i].valve_open = Some(TRUE)
           /\ resolved[i].is_heating <=> DemandPastValveCheck(i)

(* C5 amended: if no valve-state sensor can be read, or the sensor that   *)
(* is read reports a string that, compared without regard to case, is     *)
(* outside {open, opened, on, true, closed, off, false}, get_valve_state  *)
(* returns open and the heating TRV is not suppressed by the valve-state  *)
(* check.                                                                  *)
C5_FailOpenIgnoringCase ==
  Polled =>
    \A i \in DOMAIN resolved :
      ( /\ resolved[i].valve_open # None
        /\ \/ Readable(trv[i].valve) = {}
           \/ Lower(FirstValveState(trv[i].valve))
                \notin (OpenStates \cup ClosedStates) )
        => /\ resolved[i].valve_open = Some(TRUE)
           /\ resolved[i].is_heating <=> DemandPastValveCheck(i)

C5_Witness ==
  /\ Polled
  /\ \E i \in DOMAIN resolved :
       /\ resolved[i].valve_open = Some(TRUE)
       /\ trv[i].valve[1] = None
       /\ trv[i].valve[2] = Some("unavailable")
       /\ resolved[i].is_heating

C5_WitnessNoSensor ==
  /\ Polled
  /\ \E i \in DOMAIN resolved :
       /\ resolved[i].valve_open = Some(TRUE)
       /\ Readable(trv[i].valve) = {}
       /\ resolved[i].is_heating

(* C6: under the hvac_action policy with no position threshold, a         *)
(* readable TRV is demanding exactly when hvac_action is 'heating' and    *)
(* the valve-state check is disabled or does not find the valve closed.   *)
C6_HvacActionPolicy ==
  (Polled /\ ~cfg.ignore_hvac_action /\ cfg.min_valve_position_threshold = 0)
    => \A i \in DOMAIN resolved :
         trv[i].entity # None
           => (resolved[i].is_heating <=> PassesHvacAndValve(i))

C6_Witness ==
  /\ Polled
  /\ ~cfg.ignore_hvac_action
  /\ cfg.min_valve_position_threshold = 0
  /\ cfg.check_valve_state
  /\ \E i \in DOMAIN resolved :
       /\ HvacHeating(i)
       /\ ValveClosed(trv[i].valve)
       /\ ~resolved[i].is_heating

(* C7: under the hvac_action policy with a position threshold above zero, *)
(* a TRV that passes the hvac_action and valve-state test is demanding    *)
(* exactly when it has no position reading or its position is strictly    *)
(* above the threshold.                                                    *)
C7_PositionThreshold ==
  (Polled /\ ~cfg.ignore_hvac_action /\ cfg.min_valve_position_threshold > 0)
    => \A i \in DOMAIN resolved :
         PassesHvacAndValve(i)
           => (resolved[i].is_heating
                 <=> \/ ReportedPosition(trv[i].position) = None
                     \/ AboveThreshold(i))

C7_Witness ==
  /\ Polled
  /\ ~cfg.ignore_hvac_action
  /\ cfg.min_valve_position_threshold > 0
  /\ \E i \in DOMAIN resolved :
       /\ PassesHvacAndValve(i)
       /\ ReportedPosition(trv[i].position)
            = Some(cfg.min_valve_position_threshold)
       /\ ~resolved[i].is_heating

(* C8: under the position-only policy a readable TRV is demanding exactly *)
(* when it has a position reading strictly above the threshold, whatever  *)
(* its hvac_action and valve-state sensors say; the valve-state sensors   *)
(* are not consulted.                                                      *)
C8_PositionOnlyPolicy ==
  (Polled /\ cfg.ignore_hvac_action)
    => \A i \in DOMAIN resolved :
         trv[i].entity # None
           => /\ resolved[i].is_heating <=> AboveThreshold(i)
              /\ resolved[i].valve_open = None

C8_Witness ==
  /\ Polled
  /\ cfg.ignore_hvac_action
  /\ \E i \in DOMAIN resolved :
       /\ trv[i].entity # None
       /\ ~HvacHeating(i)
       /\ ValveClosed(trv[i].valve)
       /\ AboveThreshold(i)
       /\ resolved[i].is_heating

C8_WitnessNoPosition ==
  /\ Polled
  /\ cfg.ignore_hvac_action
  /\ \E i \in DOMAIN resolved :
       /\ HvacHeating(i)
       /\ ReportedPosition(trv[i].position) = None
       /\ ~resolved[i].is_heating

(* C9: the position of a TRV is the value of the first sensor, in pattern *)
(* order, whose state is numeric; sensors with a non-numeric state are    *)
(* skipped, and without a numeric one there is no reading.  A TRV that    *)
(* passes the hvac_action and valve-state test and whose position sensors *)
(* report only non-numeric states is demanding.                           *)
C9_PositionResolution ==
  Polled =>
    \A i \in DOMAIN resolved :
      trv[i].entity # None =>
        /\ resolved[i].current_position
             \in {None, ReportedPosition(trv[i].position)}
        /\ cfg.ignore_hvac_action
             => resolved[i].current_position = ReportedPosition(trv[i].position)
        /\ ( /\ ~cfg.ignore_hvac_action
             /\ PassesHvacAndValve(i)
             /\ Numeric(trv[i].position) = {} )
             => /\ resolved[i].is_heating
                /\ resolved[i].append = None

C9_Witness ==
  /\ Polled
  /\ ~cfg.ignore_hvac_action
  /\ cfg.min_valve_position_threshold > 0
  /\ \E i \in DOMAIN resolved :
       /\ PassesHvacAndValve(i)
       /\ trv[i].position[1] = Some("unknown")
       /\ Numeric(trv[i].position) = {}
       /\ resolved[i].is_heating

C9_WitnessSkipped ==
  /\ Polled
  /\ cfg.ignore_hvac_action
  /\ \E i \in DOMAIN resolved :
       /\ trv[i].position[1] = Some("unknown")
       /\ trv[i].position[2] = Some("25")
       /\ trv[i].position[3] = Some("40")
       /\ resolved[i].current_position = Some(25)

(***************************************************************************)
(* Properties of the boiler actuator.                                      *)
(***************************************************************************)

(* The cycle that completed before the one that has run, if any. *)
Previous == IF history = <<>> THEN None ELSE history[Len(history)]

TwoCycles == Polled /\ Previous # None

SameTRVReadings == Val(Previous).trv = trv

(* Between the two cycles nothing but the calls of the first changed the *)
(* boiler.                                                                *)
NoExternalChange ==
  state_data = RemoteEffects(Val(Previous).state_data, Val(Previous).calls)

AllAccepted(issued) == \A k \in DOMAIN issued : issued[k].ok

ThermostatMode == BoilerConfigured /\ cfg.boiler_mode = "thermostat"

ToggleMode == BoilerConfigured /\ cfg.boiler_mode # "thermostat"

(* What the boiler reported to the actuator: its preset ('none' when it  *)
(* reports no preset) and its setpoint.                                   *)
ReportedPreset ==
  IF IsNone(Val(state_data).preset_mode) THEN "none"
  ELSE Val(Val(state_data).preset_mode)

AtTarget ==
  /\ ~IsNone(state_data)
  /\ Val(state_data).temperature = Some(RoundHalf(Val(target_temp)))
  /\ ReportedPreset # "schedule"

(* C12: in thermostat mode, a cycle that finds the boiler reporting the   *)
(* cycle's target, rounded to half a degree, in a preset other than       *)
(* 'schedule' issues no service call, on the demand and on the idle path. *)
C12_ThermostatGuard ==
  (Polled /\ ThermostatMode /\ AtTarget) => calls = <<>>

(* A demand cycle finds the boiler at its target in the preset 'manual'. *)
C12_Witness ==
  /\ Polled /\ ThermostatMode /\ AtTarget
  /\ sufficient_demand
  /\ ReportedPreset = "manual"
  /\ calls = <<>>

(* An idle cycle finds the boiler at manual_off_temperature. *)
C12_WitnessIdle ==
  /\ Polled /\ ThermostatMode /\ AtTarget
  /\ ~sufficient_demand
  /\ target_temp = Some(cfg.manual_off_temperature)
  /\ calls = <<>>

PresetRequests(issued) ==
  SelectSeq(issued, LAMBDA call : call.service = "set_preset_mode")

TemperatureRequests(issued) ==
  SelectSeq(issued, LAMBDA call : call.service = "set_temperature")

(* The calls of one thermostat transition: the presets of order are       *)
(* requested one after the other up to the first that is accepted, and    *)
(* then set_temperature is requested once, with the target.               *)
PresetsThenTemperature(issued, order, target) ==
  LET requested == PresetRequests(issued)
      n == Len(requested)
  IN /\ n \in 1..Len(order)
     /\ \A k \in 1..n : requested[k].preset_mode = Some(order[k])
     /\ \A k \in 1..(n - 1) : ~requested[k].ok
     /\ n < Len(order) => requested[n].ok
     /\ issued = requested \o TemperatureRequests(issued)
     /\ Len(TemperatureRequests(issued)) = 1
     /\ issued[Len(issued)].temperature = Some(target)

DemandOrder == <<"none", "manual", "away">>

IdleOrder == <<"none", "manual">>

(* C13: on the demand path in thermostat mode, when the guard does not    *)
(* short-circuit, the presets none, manual, away are requested in this    *)
(* order up to the first that is accepted, and after them exactly one     *)
(* set_temperature with the computed target is issued, whether or not a   *)
(* preset was accepted.                                                    *)
C13_DemandOrdering ==
  (Polled /\ ThermostatMode /\ sufficient_demand /\ ~AtTarget)
    => PresetsThenTemperature(calls, DemandOrder, RoundHalf(Val(target_temp)))

(* The only call is set_temperature with the target. *)
TemperatureOnly(issued, target) ==
  /\ Len(issued) = 1
  /\ issued[1].service = "set_temperature"
  /\ issued[1].temperature = Some(target)

(* C13 amended: the same when the boiler could be read; when it could not *)
(* be read, no preset is requested and set_temperature with the computed  *)
(* target is the only call.                                                *)
C13_DemandOrderingWhenRead ==
  (Polled /\ ThermostatMode /\ sufficient_demand /\ ~AtTarget)
    => IF ~IsNone(state_data)
       THEN PresetsThenTemperature(calls, DemandOrder,
                                   RoundHalf(Val(target_temp)))
       ELSE TemperatureOnly(calls, RoundHalf(Val(target_temp)))

(* 'none' is rejected, 'manual' is accepted, the temperature follows. *)
C13_Witness ==
  /\ Polled /\ ThermostatMode /\ sufficient_demand /\ ~AtTarget
  /\ ~IsNone(state_data)
  /\ Len(calls) = 3
  /\ ~calls[1].ok
  /\ calls[2].preset_mode = Some("manual") /\ calls[2].ok
  /\ calls[3].service = "set_temperature"

(* No preset is accepted: all three are requested, the temperature follows. *)
C13_WitnessNoneAccepted ==
  /\ Polled /\ ThermostatMode /\ sufficient_demand
  /\ Len(calls) = 4
  /\ \A k \in 1..3 : ~calls[k].ok
  /\ calls[4].service = "set_temperature"

(* C14: on the idle path in thermostat mode, when the guard does not      *)
(* short-circuit, the presets none, manual are requested in this order,   *)
(* 'away' is never requested, and afterwards set_temperature is issued    *)
(* with manual_off_temperature.                                            *)
C14_IdleOrdering ==
  (Polled /\ ThermostatMode /\ ~sufficient_demand /\ ~AtTarget)
    => /\ PresetsThenTemperature(calls, IdleOrder, cfg.manual_off_temperature)
       /\ \A k \in DOMAIN calls : calls[k].preset_mode # Some("away")

(* C14 amended: the same when the boiler could be read; when it could not *)
(* be read, no preset is requested and set_temperature with               *)
(* manual_off_temperature is the only call.                                *)
C14_IdleOrderingWhenRead ==
  (Polled /\ ThermostatMode /\ ~sufficient_demand /\ ~AtTarget)
    => /\ IF ~IsNone(state_data)
          THEN PresetsThenTemperature(calls, IdleOrder,
                                      cfg.manual_off_temperature)
          ELSE TemperatureOnly(calls, cfg.manual_off_temperature)
       /\ \A k \in DOMAIN calls : calls[k].preset_mode # Some("away")

(* Neither preset is accepted; the temperature follows without 'away'. *)
C14_Witness ==
  /\ Polled /\ ThermostatMode /\ ~sufficient_demand /\ ~AtTarget
  /\ ~IsNone(state_data)
  /\ Len(calls) = 3
  /\ ~calls[1].ok /\ ~calls[2].ok
  /\ calls[3].service = "set_temperature"
  /\ calls[3].temperature = Some(cfg.manual_off_temperature)

(* The state the toggle actuator read for the boiler, None if it could    *)
(* not be read.                                                            *)
StateRead ==
  IF IsNone(state_data) THEN None ELSE Some(Val(state_data).state)

OneCall(issued, service) ==
  /\ Len(issued) = 1
  /\ issued[1].service = service

(* C15: in toggle mode a demand cycle issues no service call when the     *)
(* state it read is 'on' and exactly one turn_on otherwise; an idle cycle *)
(* issues no service call when the state it read is 'off' and exactly one *)
(* turn_off otherwise.                                                     *)
C15_ToggleNoOp ==
  (Polled /\ ToggleMode)
    => IF sufficient_demand
       THEN IF StateRead = Some("on") THEN calls = <<>>
            ELSE OneCall(calls, "turn_on")
       ELSE IF StateRead = Some("off") THEN calls = <<>>
            ELSE OneCall(calls, "turn_off")

(* A demand cycle finds the switch on and leaves it alone. *)
C15_Witness ==
  /\ Polled /\ ToggleMode /\ sufficient_demand
  /\ StateRead = Some("on")
  /\ calls = <<>>

(* An idle cycle finds the switch unavailable and issues turn_off. *)
C15_WitnessTurnOff ==
  /\ Polled /\ ToggleMode /\ ~sufficient_demand
  /\ StateRead = Some("unavailable")
  /\ OneCall(calls, "turn_off")

(* The consecutive cycles in view: those of the history and the one that  *)
(* has run, oldest first.                                                  *)
CyclesInView ==
  SelectSeq(history, LAMBDA h : h # None) \o <<Some(CompletedCycle)>>

(* From one cycle of w to the next nothing but the calls of the earlier   *)
(* cycle changed the boiler.                                               *)
Undisturbed(w) ==
  \A k \in 1..(Len(w) - 1) :
    Val(w[k + 1]).state_data
      = RemoteEffects(Val(w[k]).state_data, Val(w[k]).calls)

CallsOf(w, service) ==
  { <<k, j>> \in (DOMAIN w) \X (1..MaxCallsPerCycle) :
      /\ j \in DOMAIN Val(w[k]).calls
      /\ Val(w[k]).calls[j].service = service }

AllCallsOf(w) ==
  { <<k, j>> \in (DOMAIN w) \X (1..MaxCallsPerCycle) :
      j \in DOMAIN Val(w[k]).calls }

(* Scenario B: the first cycle in view reads the switch 'on', no cycle    *)
(* finds sufficient demand, every call is accepted and the switch then    *)
(* reports what the calls made of it.                                     *)
ScenarioB(w) ==
  /\ ToggleMode
  /\ Val(w[1]).state_data = SwitchEntity("on")
  /\ \A k \in DOMAIN w : ~Val(w[k]).sufficient_demand
  /\ \A k \in DOMAIN w : AllAccepted(Val(w[k]).calls)
  /\ Undisturbed(w)

(* C16: in toggle mode, from a boiler that reports 'on' and with no TRV   *)
(* heating in any cycle, turn_off is issued exactly once over the cycles, *)
(* by the first of them, and no other call is issued.                     *)
C16_TurnOffOnce ==
  (Polled /\ ScenarioB(CyclesInView))
    => /\ Cardinality(CallsOf(CyclesInView, "turn_off")) = 1
       /\ AllCallsOf(CyclesInView) = {<<1, 1>>}

(* Scenario B over as many cycles as are in view. *)
C16_Witness ==
  /\ Polled
  /\ Len(CyclesInView) = HistoryLength + 1
  /\ ScenarioB(CyclesInView)
  /\ calls = <<>>
  /\ StateRead = Some("off")

ThermostatServices == {"set_preset_mode", "set_temperature"}

ToggleServices == {"turn_on", "turn_off"}

ServicesCalled == { calls[k].service : k \in DOMAIN calls }

(* C17: with boiler_mode = 'thermostat' no turn_on or turn_off is ever    *)
(* issued, and with any other boiler_mode no climate.set_preset_mode or   *)
(* climate.set_temperature is ever issued.                                 *)
C17_ModesNeverMixed ==
  /\ cfg.boiler_mode = "thermostat" => ServicesCalled \cap ToggleServices = {}
  /\ cfg.boiler_mode # "thermostat"
       => ServicesCalled \cap ThermostatServices = {}

(* A boiler_mode that is neither 'thermostat' nor 'toggle' switches a     *)
(* climate entity on.                                                      *)
C17_Witness ==
  /\ Polled
  /\ cfg.boiler_mode = "auto"
  /\ cfg.boiler_entity = "climate.boiler"
  /\ Len(calls) = 1
  /\ calls[1].domain = "climate" /\ calls[1].service = "turn_on"

(* The thermostat mode sets a preset and a temperature. *)
C17_WitnessThermostat ==
  /\ Polled
  /\ cfg.boiler_mode = "thermostat"
  /\ ServicesCalled = ThermostatServices

BoilerWrites == {"set_temperature", "turn_on", "turn_off"}

(* The boiler writes among the calls that were rejected. *)
FailedWrites(issued) ==
  { k \in DOMAIN issued :
      issued[k].service \in BoilerWrites /\ ~issued[k].ok }

SameWrite(a, b) ==
  /\ a.domain = b.domain
  /\ a.service = b.service
  /\ a.temperature = b.temperature

(* C18: a boiler write that fails is issued once in its cycle and the     *)
(* cycle completes with its call of publish_heating_stats; when the next  *)
(* cycle takes the same TRV readings and reads the same boiler state, it  *)
(* issues the same write again.                                            *)
C18_WriteFailure ==
  /\ Polled
       => \A k \in FailedWrites(calls) :
            /\ \A j \in DOMAIN calls : SameWrite(calls[j], calls[k]) => j = k
            /\ published # None
  /\ (TwoCycles /\ SameTRVReadings /\ Val(Previous).state_data = state_data)
       => \A k \in FailedWrites(Val(Previous).calls) :
            \E j \in DOMAIN calls : SameWrite(calls[j], Val(Previous).calls[k])

(* set_temperature failed in one cycle and is issued again, and accepted, *)
(* in the next.                                                            *)
C18_Witness ==
  /\ TwoCycles /\ SameTRVReadings /\ Val(Previous).state_data = state_data
  /\ ~IsNone(state_data)
  /\ FailedWrites(Val(Previous).calls) # {}
  /\ calls # <<>>
  /\ calls[Len(calls)].service = "set_temperature"
  /\ calls[Len(calls)].ok

(* The boiler b is in the state that the demand implies: in thermostat    *)
(* mode at the target in a preset other than 'schedule', in toggle mode   *)
(* on with sufficient demand and off without.                             *)
InImpliedState(b, demand, target) ==
  /\ ~IsNone(b)
  /\ IF cfg.boiler_mode = "thermostat"
     THEN /\ Val(b).temperature = Some(RoundHalf(Val(target)))
          /\ Val(b).preset_mode # Some("schedule")
     ELSE Val(b).state = (IF demand THEN "on" ELSE "off")

(* What the cycle before left of the boiler. *)
LeftByPrevious ==
  RemoteEffects(Val(Previous).state_data, Val(Previous).calls)

(* The cycle before left the boiler in the state its demand implied, the  *)
(* demand is the same in this cycle, and in between the boiler was        *)
(* changed from outside to a state this cycle could read.                 *)
ChangedExternally ==
  /\ TwoCycles
  /\ BoilerConfigured
  /\ Val(Previous).sufficient_demand = sufficient_demand
  /\ Val(Previous).target_temp = target_temp
  /\ InImpliedState(LeftByPrevious, sufficient_demand, target_temp)
  /\ ~IsNone(state_data)
  /\ state_data # LeftByPrevious

RestoringWrite ==
  IF cfg.boiler_mode = "thermostat" THEN "set_temperature"
  ELSE IF sufficient_demand THEN "turn_on" ELSE "turn_off"

(* C19: when the boiler is changed from outside between two cycles with   *)
(* the same demand, the next cycle reads the changed state; if that is    *)
(* not the state the demand implies it issues the write that restores it, *)
(* and when its calls are accepted the boiler is back in that state at    *)
(* the end of the cycle.                                                   *)
C19_SelfCorrection ==
  ChangedExternally
    => /\ ~InImpliedState(state_data, sufficient_demand, target_temp)
            => /\ calls # <<>>
               /\ calls[Len(calls)].service = RestoringWrite
       /\ AllAccepted(calls)
            => InImpliedState(boiler, sufficient_demand, target_temp)

(* The preset was put back to 'schedule' with the setpoint at the target; *)
(* the cycle leaves 'schedule' and sets the temperature again.            *)
C19_Witness ==
  /\ ChangedExternally
  /\ cfg.boiler_mode = "thermostat"
  /\ Val(state_data).preset_mode = Some("schedule")
  /\ Val(state_data).temperature = Some(RoundHalf(Val(target_temp)))
  /\ AllAccepted(calls)
  /\ Len(calls) = 2
  /\ InImpliedState(boiler, sufficient_demand, target_temp)

(* The switch was turned off from outside while a TRV demands heat. *)
C19_WitnessToggle ==
  /\ ChangedExternally
  /\ cfg.boiler_mode = "toggle"
  /\ sufficient_demand
  /\ StateRead = Some("off")
  /\ AllAccepted(calls)
  /\ boiler = SwitchEntity("on")

(***************************************************************************)
(* Properties of the dynamic temperature calculator.                       *)
(***************************************************************************)

(* C20: with the boiler temperature and the manual temperatures fixed,    *)
(* calculate_dynamic_temperature is non-decreasing in the average valve   *)
(* position over 0..100: a call at a position that is not lower returns a *)
(* temperature that is not lower, also from 0 to the first positive       *)
(* position and across 25.                                                 *)
C20_Monotone ==
  [][(/\ calculator_input # None
      /\ calculator_input' # None
      /\ Val(calculator_input) <= Val(calculator_input'))
       => Val(target_temp) <= Val(target_temp')]_vars

(* The calculator at the kink: at 25 it returns the boiler temperature    *)
(* plus half a degree, strictly between the manual temperatures.          *)
C20_Witness ==
  /\ calculator_input = Some(25)
  /\ ~IsNone(boiler)
  /\ Val(boiler).current_temperature = Some(Number(160))
  /\ target_temp = Some(165)
  /\ cfg.manual_off_temperature < 165
  /\ cfg.manual_on_temperature > 165

(* The calculator just above 0 with a boiler warmer than                  *)
(* manual_off_temperature: the result jumps to the boiler temperature.    *)
C20_WitnessJump ==
  /\ calculator_input = Some(1)
  /\ target_temp # None
  /\ Val(target_temp) > cfg.manual_off_temperature

(* The inputs and the outcome of the last call of the calculator. *)
Calculated == calculator_input # None /\ target_temp # None
Position == Val(calculator_input)
Returned == Val(target_temp)
ManualOn == cfg.manual_on_temperature
ManualOff == cfg.manual_off_temperature

(* C21: whatever the boiler reports, calculate_dynamic_temperature at     *)
(* position 0 returns manual_off_temp, and at position 100 it returns     *)
(* manual_on_temp as the bounding max(manual_off_temp, min(manual_on_temp, *)
(* .)) and the rounding to half a degree leave it.                        *)
C21_EndPoints ==
  Calculated =>
    /\ Position = 0 => Returned = ManualOff
    /\ Position = MaxValvePosition
         => Returned = RoundHalf(Max(ManualOff, Min(ManualOn, ManualOn)))

(* The calculator at 100 with a boiler at 16 degrees: manual_on_temp. *)
C21_Witness ==
  /\ calculator_input = Some(MaxValvePosition)
  /\ ~IsNone(boiler)
  /\ Val(boiler).current_temperature = Some(Number(160))
  /\ ManualOff < ManualOn
  /\ target_temp = Some(ManualOn)

(* The calculator at 0 with a boiler warmer than manual_off_temp. *)
C21_WitnessZero ==
  /\ calculator_input = Some(0)
  /\ ~IsNone(boiler)
  /\ Val(boiler).current_temperature = Some(Number(160))
  /\ ManualOff < 160
  /\ target_temp = Some(ManualOff)

(* The base temperature of a calculation: what the boiler reports as its  *)
(* current temperature, manual_off_temp when it reports none.             *)
BoilerTemperature ==
  IF IsNone(boiler) THEN None
  ELSE IF IsNone(Val(boiler).current_temperature) THEN None
  ELSE Float(Val(Val(boiler).current_temperature))

Base == IF IsNone(BoilerTemperature) THEN ManualOff ELSE Val(BoilerTemperature)

(* C22: at position 25 calculate_dynamic_temperature returns the base     *)
(* plus half a degree, rounded to the nearest half degree, for every base *)
(* and every pair of manual temperatures.                                 *)
C22_Kink ==
  (Calculated /\ Position = 25) => Returned = RoundHalf(Base + 5)

(* C22 as amended: at position 25 calculate_dynamic_temperature returns   *)
(* the base plus half a degree, bounded by the manual temperatures and    *)
(* then rounded to the nearest half degree.                               *)
C22_KinkBounded ==
  (Calculated /\ Position = 25)
    => Returned = RoundHalf(Max(ManualOff, Min(ManualOn, Base + 5)))

(* The calculator at 25 with a boiler warmer than manual_on_temp: the     *)
(* result is manual_on_temp, not the boiler temperature plus 0.5.         *)
C22_Witness ==
  /\ calculator_input = Some(25)
  /\ Base = 230
  /\ ManualOff < ManualOn
  /\ ManualOn < Base
  /\ target_temp = Some(RoundHalf(ManualOn))

(* The calculator at 25 with a boiler between the manual temperatures. *)
C22_WitnessWithin ==
  /\ calculator_input = Some(25)
  /\ Base = 163
  /\ ManualOff < 163
  /\ ManualOn > 170
  /\ target_temp = Some(170)

(* A call of the calculator in the lower segment: above 0, at most 25. *)
LowerSegment == Calculated /\ 0 < Position /\ Position <= 25

(* C23: for a position above 0 and at most 25 the target before bounding  *)
(* and rounding is the linear interpolation between manual_off_temp at 0  *)
(* and the base plus 0.5 at 25: manual_off_temp + (base + 0.5 -           *)
(* manual_off_temp) * (position / 25).  Both sides are numerators over 75. *)
C23_LowerSegmentFromManualOff ==
  LowerSegment
    => before_bounds
         = Some(75 * ManualOff + 3 * (Base + 5 - ManualOff) * Position)

(* C23 as amended: for a position above 0 and at most 25 the target       *)
(* before bounding and rounding is the linear interpolation between the   *)
(* base at 0 and the base plus 0.5 at 25: base + 0.5 * (position / 25).   *)
C23_LowerSegmentFromBase ==
  LowerSegment => before_bounds = Some(75 * Base + 3 * 5 * Position)

(* The calculator at 10 with a boiler at 16 degrees and manual_off_temp   *)
(* 14: 16.2 degrees, where the interpolation from manual_off_temp gives   *)
(* 15.                                                                     *)
C23_Witness ==
  /\ calculator_input = Some(10)
  /\ Base = 160
  /\ ManualOff = 140
  /\ before_bounds = Some(75 * 162)

(* C24: with manual_off_temp at most manual_on_temp, the temperature      *)
(* calculate_dynamic_temperature returns lies between the two, for every  *)
(* position and every base, also a base outside the two, and after the    *)
(* rounding to half a degree.                                             *)
C24_Bounds ==
  (Calculated /\ ManualOff <= ManualOn)
    => ManualOff <= Returned /\ Returned <= ManualOn

(* The base a calculation used, recovered from the interpolated target:   *)
(* below 25 the target is base + 0.5 * position / 25, above it is         *)
(* (base + 0.5) * (100 - position) / 75 + manual_on_temp * (position -    *)
(* 25) / 75.  At 100 the base has no part in the target.                  *)
BaseUsed ==
  IF Position <= 25
  THEN (Val(before_bounds) - 3 * 5 * Position) \div 75
  ELSE (Val(before_bounds) - ManualOn * (Position - 25))
         \div (MaxValvePosition - Position) - 5

(* What the boiler reports as current_temperature. *)
BoilerUnreadable == IsNone(boiler)
AttributeAbsent ==
  ~IsNone(boiler) /\ IsNone(Val(boiler).current_temperature)
AttributeIs(v) ==
  ~IsNone(boiler) /\ Val(boiler).current_temperature = Some(v)
AttributeIsNumber ==
  /\ ~IsNone(boiler)
  /\ ~IsNone(Val(boiler).current_temperature)
  /\ "number" \in DOMAIN Val(Val(boiler).current_temperature)
AttributeUnparseable ==
  AttributeIs(String("unknown")) \/ AttributeIs(String(""))

(* C25: for a position above 0 the calculator takes the boiler's          *)
(* current_temperature as the base of the interpolation, and takes        *)
(* manual_off_temp when the boiler cannot be read, has no such attribute, *)
(* or its value does not parse as a number; the calculation returns a     *)
(* temperature in each of these cases.                                    *)
C25_BaseFallback ==
  (calculator_input # None /\ 0 < Position /\ Position < MaxValvePosition)
    => /\ target_temp # None
       /\ before_bounds # None
       /\ AttributeIsNumber
            => BaseUsed = Val(Val(boiler).current_temperature).number
       /\ AttributeIs(String("16.5")) => BaseUsed = 165
       /\ (BoilerUnreadable \/ AttributeAbsent \/ AttributeUnparseable)
            => BaseUsed = ManualOff

(* The calculator with a boiler whose current_temperature is 'unknown':   *)
(* the target at 25 is manual_off_temp plus 0.5.                          *)
C25_Witness ==
  /\ calculator_input = Some(25)
  /\ AttributeIs(String("unknown"))
  /\ before_bounds = Some(75 * (ManualOff + 5))

(* The calculator with a boiler that cannot be read. *)
C25_WitnessUnreadable ==
  /\ calculator_input = Some(50)
  /\ BoilerUnreadable
  /\ BaseUsed = ManualOff
  /\ target_temp # None

(* The calculator with a boiler that reports 16.3 degrees. *)
C25_WitnessReported ==
  /\ calculator_input = Some(50)
  /\ AttributeIs(Number(163))
  /\ BaseUsed = 163

(***************************************************************************)
(* Properties of the choice of the target temperature.                     *)
(***************************************************************************)

(* The conditions under which a cycle may use the calculator. *)
DynamicConditions ==
  /\ sufficient_demand
  /\ ThermostatMode
  /\ cfg.use_dynamic_temperature
  /\ DemandingWithPosition # {}

(* C26: calculate_dynamic_temperature is used only in a cycle with        *)
(* sufficient demand, thermostat mode, use_dynamic_temperature enabled    *)
(* and a demanding TRV with a usable position; every other thermostat     *)
(* cycle with sufficient demand has the target manual_on_temperature, and *)
(* every thermostat cycle without sufficient demand has the target        *)
(* manual_off_temperature.                                                *)
C26_DynamicOnlyWhen ==
  Polled =>
    /\ calculator_input # None => DynamicConditions
    /\ (ThermostatMode /\ sufficient_demand /\ ~DynamicConditions)
         => target_temp = Some(ManualOn)
    /\ (ThermostatMode /\ ~sufficient_demand)
         => target_temp = Some(ManualOff)

(* A cycle that used the calculator: two demanding TRVs at 40% give an    *)
(* average of 50 and, with the boiler at 16 degrees, a target of 18.      *)
C26_Witness ==
  /\ Polled
  /\ DynamicConditions
  /\ calculator_input = Some(50)
  /\ target_temp = Some(180)

(* A cycle with sufficient demand and use_dynamic_temperature enabled but *)
(* no position: the target is manual_on_temperature.                      *)
C26_WitnessNoPosition ==
  /\ Polled
  /\ ThermostatMode
  /\ sufficient_demand
  /\ cfg.use_dynamic_temperature
  /\ DemandingWithPosition = {}
  /\ target_temp = Some(ManualOn)

(* A cycle with a position but without sufficient demand: the target is   *)
(* manual_off_temperature.                                                *)
C26_WitnessInsufficient ==
  /\ Polled
  /\ ThermostatMode
  /\ ~sufficient_demand
  /\ cfg.use_dynamic_temperature
  /\ DemandingWithPosition # {}
  /\ target_temp = Some(ManualOff)

(***************************************************************************)
(* Properties of whole cycles.                                             *)
(***************************************************************************)

(* Scenario A: three TRVs, two heating with open valves at 10% and 40%    *)
(* and one idle, in front of a thermostat boiler at 16 degrees, with the  *)
(* manual temperatures 21 and 14, a threshold of one demanding TRV, and   *)
(* the other options at their defaults.                                   *)
ScenarioA ==
  /\ Polled
  /\ Len(cfg.trv_entities) = Len(ScenarioTRVs)
  /\ \E i, j, k \in DOMAIN trv :
       /\ {i, j, k} = DOMAIN trv
       /\ trv[i] = HeatingOpenAt("10")
       /\ trv[j] = HeatingOpenAt("40")
       /\ ~IsNone(trv[k].entity)
       /\ Val(trv[k].entity).hvac_action = Some("idle")
  /\ cfg.min_trvs_heating = 1
  /\ ThermostatMode
  /\ ~cfg.ignore_hvac_action
  /\ cfg.min_valve_position_threshold = 0
  /\ cfg.use_dynamic_temperature
  /\ ManualOn = 210
  /\ ManualOff = 140
  /\ ~IsNone(state_data)
  /\ Val(state_data).current_temperature = Some(Number(160))

(* C27: in scenario A the cycle finds sufficient demand, an average valve *)
(* position of 25 and a target of 16.5 degrees.                           *)
C27_ScenarioA ==
  ScenarioA
    => /\ sufficient_demand
       /\ avg_valve_position = Some(25)
       /\ target_temp = Some(165)

(* Scenario A with a boiler on its schedule: the cycle commands 16.5. *)
C27_Witness ==
  /\ ScenarioA
  /\ Val(state_data).preset_mode = Some("schedule")
  /\ \E k \in DOMAIN calls :
       /\ calls[k].service = "set_temperature"
       /\ calls[k].temperature = Some(165)
       /\ calls[k].ok
  /\ avg_valve_position = Some(25)

(* The places of the events of the cycle that are calls of the publisher, *)
(* and those that are service calls.                                      *)
Publications == { k \in DOMAIN events : "heating_active" \in DOMAIN events[k] }
ServiceCalls == { k \in DOMAIN events : "service" \in DOMAIN events[k] }

(* C28: every polling cycle ends with exactly one call of the stats       *)
(* publisher, made after the boiler has been actuated: the last event of  *)
(* the cycle and the only publication, whether the boiler write           *)
(* succeeded, failed, was skipped by the guard, or no boiler is           *)
(* configured.                                                            *)
C28_PublishedOnce ==
  Polled
    => /\ Cardinality(Publications) = 1
       /\ Publications = {Len(events)}
       /\ ServiceCalls = 1..Len(calls)
       /\ \A k \in ServiceCalls : events[k] = calls[k]
       /\ events[Len(events)].target_temp = target_temp

(* A cycle whose boiler write failed: the statistics follow the failed    *)
(* call.                                                                   *)
C28_Witness ==
  /\ Polled
  /\ BoilerConfigured
  /\ calls # <<>>
  /\ \A k \in DOMAIN calls : ~calls[k].ok
  /\ Publications = {Len(calls) + 1}

(* A cycle whose boiler write succeeded. *)
C28_WitnessSucceeded ==
  /\ Polled
  /\ BoilerConfigured
  /\ calls # <<>>
  /\ AllAccepted(calls)
  /\ Publications = {Len(calls) + 1}

(* A cycle whose boiler write was skipped by the guard. *)
C28_WitnessSkipped ==
  /\ Polled
  /\ BoilerConfigured
  /\ ~IsNone(state_data)
  /\ calls = <<>>
  /\ Publications = {1}

(* A cycle without a boiler. *)
C28_WitnessNoBoiler ==
  /\ Polled
  /\ ~BoilerConfigured
  /\ any_trv_heating
  /\ Publications = {1}

(***************************************************************************)
(* Properties of the entity state reader.                                  *)
(***************************************************************************)

(* The first answer of the remote for TRV i. *)
FirstAnswer(i) == responses[i][1]

(* C29: get_entity_state never raises and does not retry: each call makes *)
(* exactly one request, a failed or timed-out request yields None for     *)
(* that cycle, and the cycle goes on with the remaining TRVs.             *)
C29_ReaderNoRetry ==
  (Polled /\ responses # <<>>)
    => /\ DOMAIN requests = DOMAIN cfg.trv_entities
       /\ DOMAIN resolved = DOMAIN cfg.trv_entities
       /\ published # <<>>
       /\ \A i \in DOMAIN cfg.trv_entities :
            /\ requests[i] = 1
            /\ trv[i].entity = FirstAnswer(i).json
            /\ FirstAnswer(i).kind # "ok"
                 => IsNone(trv[i].entity) /\ ~resolved[i].is_heating
            /\ FirstAnswer(i) = Answered(Attributes(Some("heating")))
                 => resolved[i].is_heating

(* A cycle whose first read timed out, though a second request would have *)
(* been answered, and whose second TRV was then read and found heating.   *)
C29_Witness ==
  /\ Polled
  /\ responses # <<>>
  /\ responses[1][1] = Failed("Timeout")
  /\ responses[1][2] = Answered(Attributes(Some("heating")))
  /\ responses[2][1] = Answered(Attributes(Some("heating")))
  /\ requests[1] = 1
  /\ IsNone(trv[1].entity)
  /\ resolved[2].is_heating
  /\ any_trv_heating

(***************************************************************************)
(* Properties of the degraded configurations.                              *)
(***************************************************************************)

NoTRVs == cfg.trv_entities = <<>>

(* The cycle ran to its end and reported once. *)
Reported == Polled /\ Len(published) = 1

(* What the cycle reported: 'idle' with no demanding TRV. *)
ReportedNoDemand ==
  /\ ~published[1].heating_active
  /\ published[1].trv_count_heating = 0

(* C30: with an empty TRV list or with no boiler entity configured, every *)
(* cycle runs to completion and reports no demand, status idle and zero   *)
(* demanding TRVs; with no boiler entity configured no boiler service     *)
(* call is issued.                                                        *)
C30_DegradedNoDemand ==
  (Polled /\ (NoTRVs \/ ~BoilerConfigured))
    => /\ Reported
       /\ ReportedNoDemand
       /\ ~BoilerConfigured => calls = <<>>

(* C30 as amended: with an empty TRV list every cycle runs to completion  *)
(* and reports no demand; with no boiler entity configured every cycle    *)
(* runs to completion, reports the demand it found on the TRVs, and       *)
(* issues no boiler service call.                                         *)
C30_DegradedReportsTRVs ==
  (Polled /\ (NoTRVs \/ ~BoilerConfigured))
    => /\ Reported
       /\ NoTRVs => ReportedNoDemand
       /\ ~BoilerConfigured
            => /\ calls = <<>>
               /\ target_temp = None
               /\ published[1].heating_active = (Demanding # {})
               /\ published[1].trv_count_heating = trv_count_heating

(* A cycle without a boiler entity whose TRVs demand heat: it reports     *)
(* 'heating' and calls no service.                                        *)
C30_Witness ==
  /\ Reported
  /\ ~BoilerConfigured
  /\ ~NoTRVs
  /\ Demanding # {}
  /\ published[1].heating_active
  /\ published[1].trv_count_heating > 0
  /\ calls = <<>>

(* A cycle without TRVs in front of a boiler: it reports no demand and    *)
(* drives the boiler to idle.                                              *)
C30_WitnessNoTRVs ==
  /\ Reported
  /\ NoTRVs
  /\ BoilerConfigured
  /\ ReportedNoDemand
  /\ calls # <<>>

(* The TRVs whose own state could not be read in the cycle that has run. *)
Unreadable == { i \in DOMAIN trv : IsNone(trv[i].entity) }

(* The locals of the loop body of a TRV whose sensors were not consulted. *)
NotConsulted(i) ==
  /\ resolved[i].current_position = None
  /\ resolved[i].valve_open = None

C33_WitnessAllUnreadable ==
  /\ Polled
  /\ BoilerConfigured
  /\ Unreadable = DOMAIN trv
  /\ actuation = IdleFunction
  /\ calls # <<>>

(* The boiler is configured and could not be read in the cycle that ran. *)
BoilerUnread == Polled /\ BoilerConfigured /\ IsNone(state_data)

(* C34: when the boiler's state cannot be read in a cycle, the actuator   *)
(* issues its write without a guard: in thermostat mode exactly one       *)
(* set_temperature call, with the target of the cycle, and no preset      *)
(* call; in toggle mode exactly one call, turn_on with sufficient demand  *)
(* and turn_off without.  Every cycle on an unreadable boiler writes.      *)
C34_UnreadableBoilerWritten ==
  BoilerUnread =>
    /\ Len(calls) = 1
    /\ IF cfg.boiler_mode = "thermostat"
       THEN /\ calls[1].service = "set_temperature"
            /\ calls[1].domain = "climate"
            /\ calls[1].temperature = target_temp
       ELSE /\ calls[1].service =
                 IF sufficient_demand THEN "turn_on" ELSE "turn_off"
            /\ calls[1].domain = DomainOf(cfg.boiler_entity)

(* The cycle before this one wrote to the unreadable boiler, and this one *)
(* writes the same call again.                                             *)
C34_Witness ==
  /\ BoilerUnread
  /\ cfg.boiler_mode = "thermostat"
  /\ Previous # None
  /\ IsNone(Val(Previous).state_data)
  /\ Val(Previous).calls = calls
  /\ calls # <<>>
  /\ calls[1].ok

C34_WitnessToggle ==
  /\ BoilerUnread
  /\ cfg.boiler_mode # "thermostat"
  /\ sufficient_demand
  /\ Len(calls) = 1

Steps == {0, 25, 50, 75, 100}

(* The positions appended in the cycle all lie between 0% and 100%. *)
PositionsInRange ==
  \A k \in DOMAIN valve_positions :
    valve_positions[k] >= 0 /\ valve_positions[k] <= 100

(* C35: the aggregate position of a cycle, when there is one, is one of   *)
(* 0, 25, 50, 75, 100; it is the value published and the only value the   *)
(* calculator is called with; for positions between 0 and 100 it is the   *)
(* least of these steps that is not below the raw mean, and so never      *)
(* below the raw mean.                                                     *)
C35_AggregateOnSteps ==
  Polled =>
    LET n == Len(valve_positions)
        sum == SumSeq(valve_positions)
    IN /\ (avg_valve_position # None) = (n > 0)
       /\ avg_valve_position # None
            => /\ Val(avg_valve_position) \in Steps
               /\ PositionsInRange
                    => /\ Val(avg_valve_position) * n >= sum
                       /\ \A m \in Steps :
                            m * n >= sum => Val(avg_valve_position) <= m
       /\ Val(published).avg_valve_position = avg_valve_position
       /\ calculator_input # None
            => /\ calculator_input = avg_valve_position
               /\ Val(calculator_input) \in Steps

(* Two TRVs at 40% and 100%: the raw mean of 70% is handed on as 75%. *)
C35_Witness ==
  /\ Polled
  /\ Len(valve_positions) = 2
  /\ SumSeq(valve_positions) = 140
  /\ valve_positions[1] # valve_positions[2]
  /\ avg_valve_position = Some(75)
  /\ calculator_input = Some(75)
  /\ Val(published).avg_valve_position = Some(75)

(* A position of 0% from a TRV that is heating gives an aggregate of 0. *)
C35_WitnessZero ==
  /\ Polled
  /\ valve_positions # <<>>
  /\ avg_valve_position = Some(0)
  /\ calculator_input = Some(0)

(* Above 100% the aggregate stays at 100 and below the raw mean. *)
C35_WitnessAbove ==
  /\ Polled
  /\ valve_positions # <<>>
  /\ ~PositionsInRange
  /\ avg_valve_position = Some(100)
  /\ SumSeq(valve_positions) > 100 * Len(valve_positions)

(* The service calls that both cycles issued had the same outcomes. *)
SameOutcomes(issued, before) ==
  \A k \in DOMAIN issued \cap DOMAIN before : issued[k].ok = before[k].ok

Published == publisher.pc = "done" /\ publisher.args # None

(* The entries of the log for one statistic. *)
Entries(sensor_id) ==
  { k \in DOMAIN publisher.log : publisher.log[k].sensor_id = sensor_id }

(* C36: when publish_heating_stats has returned, each statistic it came   *)
(* to, the status and the count of demanding TRVs among them, was handed  *)
(* to exactly one channel, MQTT or the REST fallback, however the MQTT    *)
(* callbacks changed mqtt_connected while it ran; none was dropped.       *)
C36_OneChannelEach ==
  Published =>
    \A k \in DOMAIN Sensors :
      Due(Val(publisher.args), Sensors[k]) =>
        /\ Cardinality(Entries(Sensors[k])) = 1
        /\ \A e \in Entries(Sensors[k]) :
             publisher.log[e].channel \in {"mqtt", "rest"}

(* What the code does guarantee: each statistic is come to exactly once,  *)
(* and all of them on the branch chosen by the one test of mqtt_connected; *)
(* on the MQTT branch a statistic is dropped when the flag has fallen.     *)
C36_OneBranch ==
  Published =>
    /\ \A k \in DOMAIN Sensors :
         Cardinality(Entries(Sensors[k])) =
           IF Due(Val(publisher.args), Sensors[k]) THEN 1 ELSE 0
    /\ \A e \in DOMAIN publisher.log :
         publisher.log[e].channel \in
           IF publisher.branch = "mqtt" THEN {"mqtt", "none"} ELSE {"rest"}

(* The flag fell after the test: the status went out over MQTT, the count *)
(* went nowhere.                                                           *)
C36_WitnessDropped ==
  /\ Published
  /\ publisher.branch = "mqtt"
  /\ \E e \in Entries("status") : publisher.log[e].channel = "mqtt"
  /\ \E e \in Entries("trvs_heating") : publisher.log[e].channel = "none"

(***************************************************************************)
(* Properties of the display add-on.                                       *)
(***************************************************************************)
Checked == display.pc = "constructed" /\ display.permissions # None

Returns(answer, status_code) ==
  ~IsNone(answer) /\ Val(answer).status_code = status_code

Granted ==
  /\ host.token
  /\ Returns(host.supervisor_info, 200)
  /\ Returns(host.host_info, 200)

(* C32: check_power_permissions reports power management enabled if and  *)
(* only if a supervisor token is present, the supervisor/info request     *)
(* returns 200 and the host/info request returns 200; a 403 on host/info, *)
(* any other status, or a failed request reports it disabled.  This holds *)
(* of ArgonOLED.check_power_permissions and of the tuple that             *)
(* SupervisorAPI.check_power_permissions returns.                          *)
C32_EnabledIffGranted ==
  Checked =>
    /\ oled.power_management_enabled = Granted
    /\ Val(display.permissions).enabled = Granted

(* The supervisor answers, the host endpoint refuses with 403. *)
C32_Witness ==
  /\ Checked
  /\ host.token
  /\ Returns(host.supervisor_info, 200)
  /\ Returns(host.host_info, 403)
  /\ ~oled.power_management_enabled
  /\ ~Val(display.permissions).enabled

C32_WitnessEnabled ==
  /\ Checked
  /\ oled.power_management_enabled
  /\ Val(display.permissions).enabled

C32_WitnessFailedRequest ==
  /\ Checked
  /\ host.token
  /\ Returns(host.supervisor_info, 200)
  /\ IsNone(host.host_info)
  /\ ~oled.power_management_enabled

(***************************************************************************)
(* Properties of the fan controller.                                       *)
(***************************************************************************)
Called == fan.call # None

(* C40: after any sequence of set_fan_speed calls with arbitrary I2C      *)
(* write failures, current_speed is the last speed byte the fan MCU       *)
(* accepted; a call whose clamped speed equals current_speed performs no  *)
(* I2C write; and a failed write leaves current_speed unchanged.           *)
C40_Bookkeeping ==
  Called =>
    /\ fan.mcu # None => fan.current_speed = Val(fan.mcu)
    /\ Val(fan.call).speed = Val(fan.call).before
         => Val(fan.call).writes = <<>>
    /\ ~AllWritten(Val(fan.call).writes)
         => fan.current_speed = Val(fan.call).before

(* What the code does guarantee: the second and third part, and that      *)
(* current_speed is the last speed byte the MCU accepted unless the last  *)
(* byte it accepted is the 100 of a spin-up whose speed write failed.      *)
C40_BookkeepingButSpinUp ==
  Called =>
    /\ fan.mcu # None
         => \/ fan.current_speed = Val(fan.mcu)
            \/ Val(fan.mcu) = 100
    /\ Val(fan.call).speed = Val(fan.call).before
         => Val(fan.call).writes = <<>>
    /\ ~AllWritten(Val(fan.call).writes)
         => fan.current_speed = Val(fan.call).before

(* The spin-up byte reached the MCU, the speed byte did not: the fan runs *)
(* at 100% while current_speed says 0, and a call for 0 writes nothing.   *)
C40_WitnessSpinUp ==
  /\ Called
  /\ fan.mcu = Some(100)
  /\ fan.current_speed = 0
  /\ Val(fan.call).speed = 0
  /\ Val(fan.call).writes = <<>>


(***************************************************************************)
(* C37.  Host power safety of the button monitor.  A request is sent to    *)
(* host/shutdown or host/reboot only while power_management_enabled is     *)
(* true, after a hold of at least 15 s for a shutdown and of at least 10 s *)
(* and under 15 s for a reboot, and after all ten samples of all five      *)
(* steps of the countdown were taken without a press being seen; and once  *)
(* a sample of the countdown has seen a press, the countdown is over and   *)
(* nothing is sent for it.                                                 *)
(***************************************************************************)
Sent(action) == host.posts' = Append(host.posts, action)

CountdownRanOut ==
  /\ ~monitor.cancelled
  /\ monitor.countdown = 1
  /\ monitor.sample = SamplesPerStep

C37_PowerSafety ==
  /\ [](monitor.cancelled => monitor.pc \notin {"countdown", "execute"})
  /\ [][host.posts' # host.posts =>
          /\ oled.power_management_enabled
          /\ CountdownRanOut
          /\ \/ Sent("shutdown") /\ monitor.total_hold >= ShutdownHold
             \/ /\ Sent("reboot")
                /\ monitor.total_hold >= RebootHold
                /\ monitor.total_hold < ShutdownHold]_vars

C37_Witness ==
  host.posts = <<"shutdown">> /\ monitor.pc = "exited"

C37_WitnessReboot ==
  host.posts = <<"reboot">> /\ monitor.pc = "exited"

C37_WitnessCancelled ==
  /\ monitor.cancelled
  /\ monitor.selected \in {"shutdown", "reboot"}
  /\ monitor.pc = "poll"
  /\ host.posts = <<>>

C37_WitnessDisabled ==
  /\ ~oled.power_management_enabled
  /\ monitor.total_hold >= ShutdownHold
  /\ monitor.pc = "poll"
  /\ host.posts = <<>>


(***************************************************************************)
(* C38.  Display resumption.  Whenever a hold of 10 s or more has ended    *)
(* without a reboot or shutdown being executed, that is, the monitor goes  *)
(* on to count the press after a cancelled countdown or after finding      *)
(* power management disabled, button_in_power_hold is eventually false,    *)
(* so that the main loop draws and rotates again.                          *)
(***************************************************************************)
HoldEndedUnexecuted ==
  /\ monitor.pc = "pressed"
  /\ monitor.total_hold >= RebootHold

C38_DisplayResumes == HoldEndedUnexecuted ~> ~oled.button_in_power_hold


(***************************************************************************)
(* C39.  Hand-off of button actions between the threads.  Every action the *)
(* button monitor stores in button_action is applied to current_screen by  *)
(* the main loop exactly once: whenever the slot is empty and the main     *)
(* loop is outside its read-then-clear block, the actions applied are the  *)
(* actions stored, in the same order.                                      *)
(***************************************************************************)
HandOffAtRest ==
  /\ oled.button_action = None
  /\ display.pc \in {"top", "draw"}

C39_HandOff == HandOffAtRest => display.applied = monitor.stored

=============================================================================
